---- MODULE Spec2Model ----
(***************************************************************************)
(* A model of src/src/processor/data_processor.py (class DataProcessor):   *)
(* the snapshot store (save_raw_data), the diff engine (_detect_changes,   *)
(* _is_resource_modified, _get_resource_changes), the cost attribution     *)
(* (_calculate_cost_changes) and the summary / trend aggregators.          *)
(* The collector layer is modelled as far as its control flow goes:        *)
(* collect_all_resources (src/src/collector.py), BaseCollector.            *)
(* aws_api_call (src/src/collectors/base_collector.py) and with_retry      *)
(* (src/src/utils/error_utils.py).                                         *)
(*                                                                         *)
(* Python values are modelled as follows.                                  *)
(*   dict            a function; "key in d" is  key \in DOMAIN d           *)
(*   list            a sequence                                            *)
(*   scalar field    [type |-> "int" | "bool" | "str", val |-> n]; for a   *)
(*                   str, val n stands for the text of the decimal digits  *)
(*                   of n (PyStr(0) is the string "0")                     *)
(*   ResourceId, tag keys and tag values, resource type names: strings     *)
(*   set iteration   Python fixes no order for it: every order is possible *)
(*   float amounts   integers counting hundredths (CostScale)              *)
(***************************************************************************)
EXTENDS Integers, Sequences, FiniteSets, TLC

VARIABLES
    start_doc,      \* first argument of the last _detect_changes call
    end_doc,        \* second argument of the last _detect_changes call
    detected,       \* change set returned by _detect_changes, or None
    cost_changes,   \* result of _calculate_cost_changes(detected), or None
    raw_dir,        \* output/raw: date directory name -> its files, or NoDir
    today,          \* the date datetime.now() falls on
    output,         \* what the last call returned or raised and wrote, or None
    save_call,      \* the last step-by-step save_raw_data call, or None
    collection,     \* the last collect_all_resources call, or None
    api_call,       \* the last BaseCollector.aws_api_call call, or None
    retry_call      \* the last call of a function wrapped by with_retry, or None

vars ==
    <<start_doc, end_doc, detected, cost_changes, raw_dir, today, output, save_call,
      collection, api_call, retry_call>>

\* the variables of the collector layer
collector_vars == <<collection, api_call, retry_call>>

None == [none |-> TRUE]

-----------------------------------------------------------------------------
(* Python values and dict / list helpers                                   *)

PyInt(n) == [type |-> "int", val |-> n]
PyStr(n) == [type |-> "str", val |-> n]
PyBool(n) == [type |-> "bool", val |-> n]

\* Mutation of PyEq: values of different types are never equal.
PyEqNoBool(a, b) ==
    a = b

\* Python == on scalars: int and bool are numbers and compare by value
\* (0 == False), a str equals only the same str.
PyEq(a, b) ==
    IF a.type = "str" \/ b.type = "str" THEN a = b ELSE a.val = b.val

\* d.get(key, default)
Get(d, key, default) ==
    IF key \in DOMAIN d THEN d[key] ELSE default

EmptyDict == [k \in {} |-> None]

Max(S) == CHOOSE x \in S : \A y \in S : y <= x

Range(s) == {s[i] : i \in DOMAIN s}

\* Every order in which the elements of the finite set S can be listed.
SetOrders(S) ==
    {s \in [1..Cardinality(S) -> S] : \A i, j \in DOMAIN s : s[i] = s[j] => i = j}

RECURSIVE SumOver(_, _)
SumOver(f, D) ==
    IF D = {} THEN 0
    ELSE LET k == CHOOSE x \in D : TRUE IN f[k] + SumOver(f, D \ {k})

-----------------------------------------------------------------------------
(* Diff engine                                                             *)

\* Mutation of TagDict: the first entry of a key gives its value.
TagDictFirstWins(res) ==
    LET tags == Get(res, "Tags", <<>>)
    IN [k \in {tags[i].Key : i \in DOMAIN tags} |->
            tags[CHOOSE i \in DOMAIN tags :
                    /\ tags[i].Key = k
                    /\ \A j \in DOMAIN tags : tags[j].Key = k => i <= j].Value]

\* {tag.get('Key'): tag.get('Value') for tag in res.get('Tags', [])}
\* a later entry with the same key overwrites an earlier one
TagDict(res) ==
    LET tags == Get(res, "Tags", <<>>)
    IN [k \in {tags[i].Key : i \in DOMAIN tags} |->
            tags[Max({i \in DOMAIN tags : tags[i].Key = k})].Value]

\* start_res[key] != end_res[key]; a ResourceId is a plain string
FieldDiffers(key, a, b) ==
    IF key = "ResourceId" THEN a # b ELSE ~PyEq(a, b)

\* Mutation of _is_resource_modified: only the keys of start_res are looked at.
IsModifiedOneSided(start_res, end_res) ==
    \/ \E key \in DOMAIN start_res \ {"Tags"} :
        \/ key \notin DOMAIN end_res
        \/ FieldDiffers(key, start_res[key], end_res[key])
    \/ TagDict(start_res) # TagDict(end_res)

\* Mutation of _is_resource_modified: the Tags lists are compared as lists.
IsModifiedTagsAsList(start_res, end_res) ==
    \/ \E key \in (DOMAIN start_res \cup DOMAIN end_res) \ {"Tags"} :
        \/ key \notin DOMAIN start_res
        \/ key \notin DOMAIN end_res
        \/ FieldDiffers(key, start_res[key], end_res[key])
    \/ Get(start_res, "Tags", <<>>) # Get(end_res, "Tags", <<>>)

\* a non-Tags key is in one record only or has unequal values, or the tag
\* dicts are unequal
_is_resource_modified(start_res, end_res) ==
    \/ \E key \in (DOMAIN start_res \cup DOMAIN end_res) \ {"Tags"} :
        \/ key \notin DOMAIN start_res
        \/ key \notin DOMAIN end_res
        \/ FieldDiffers(key, start_res[key], end_res[key])
    \/ TagDict(start_res) # TagDict(end_res)

\* Mutation of TagChanges: a tag whose value changed is not reported.
TagChangesKeysOnly(start_res, end_res) ==
    LET start_tags == TagDict(start_res)
        end_tags == TagDict(end_res)
        added_tags == [k \in DOMAIN end_tags \ DOMAIN start_tags |-> end_tags[k]]
        removed_tags == [k \in DOMAIN start_tags \ DOMAIN end_tags |-> start_tags[k]]
        present == {c \in {"added", "removed"} :
                        \/ c = "added" /\ DOMAIN added_tags # {}
                        \/ c = "removed" /\ DOMAIN removed_tags # {}}
    IN [c \in present |-> IF c = "added" THEN added_tags ELSE removed_tags]

\* the tag_changes dict of _get_resource_changes: a key is present only when
\* its mapping is non-empty
TagChanges(start_res, end_res) ==
    LET start_tags == TagDict(start_res)
        end_tags == TagDict(end_res)
        added_tags == [k \in DOMAIN end_tags \ DOMAIN start_tags |-> end_tags[k]]
        removed_tags == [k \in DOMAIN start_tags \ DOMAIN end_tags |-> start_tags[k]]
        modified_tags ==
            [k \in {x \in DOMAIN start_tags \cap DOMAIN end_tags :
                        start_tags[x] # end_tags[x]} |->
                [from |-> start_tags[k], to |-> end_tags[k]]]
        present == {c \in {"added", "removed", "modified"} :
                        \/ c = "added" /\ DOMAIN added_tags # {}
                        \/ c = "removed" /\ DOMAIN removed_tags # {}
                        \/ c = "modified" /\ DOMAIN modified_tags # {}}
    IN [c \in present |->
            IF c = "added" THEN added_tags
            ELSE IF c = "removed" THEN removed_tags
            ELSE modified_tags]

\* Mutation of _get_resource_changes: only keys of both records are reported.
GetChangesFromOnly(start_res, end_res) ==
    LET all_keys == DOMAIN start_res \cup DOMAIN end_res
        changed == {key \in all_keys \ {"Tags"} :
                        /\ key \in DOMAIN start_res
                        /\ key \in DOMAIN end_res
                        /\ FieldDiffers(key, start_res[key], end_res[key])}
        tag_changes == TagChanges(start_res, end_res)
        with_tags == IF DOMAIN tag_changes # {} THEN {"Tags"} ELSE {}
    IN [key \in changed \cup with_tags |->
            IF key = "Tags" THEN tag_changes
            ELSE [from |-> start_res[key], to |-> end_res[key]]]

\* changes: an entry per non-Tags key that is in one record only or has
\* unequal values, and the tag_changes under 'Tags' when there are any
_get_resource_changes(start_res, end_res) ==
    LET all_keys == DOMAIN start_res \cup DOMAIN end_res
        changed == {key \in all_keys \ {"Tags"} :
                        \/ key \notin DOMAIN start_res
                        \/ key \notin DOMAIN end_res
                        \/ FieldDiffers(key, start_res[key], end_res[key])}
        tag_changes == TagChanges(start_res, end_res)
        with_tags == IF DOMAIN tag_changes # {} THEN {"Tags"} ELSE {}
    IN [key \in changed \cup with_tags |->
            IF key = "Tags" THEN tag_changes
            ELSE IF key \notin DOMAIN start_res THEN [added |-> end_res[key]]
            ELSE IF key \notin DOMAIN end_res THEN [removed |-> start_res[key]]
            ELSE [from |-> start_res[key], to |-> end_res[key]]]

\* res.get('ResourceId') is truthy: the key is there and is not ''
HasResourceId(res) ==
    "ResourceId" \in DOMAIN res /\ res["ResourceId"] # ""

\* Mutation of IdMap: records without a ResourceId are kept, under ''.
IdMapKeepsAll(resource_list) ==
    [id \in {Get(resource_list[i], "ResourceId", "") : i \in DOMAIN resource_list} |->
        resource_list[Max({i \in DOMAIN resource_list :
                            Get(resource_list[i], "ResourceId", "") = id})]]

\* {res.get('ResourceId'): res for res in resource_list if res.get('ResourceId')}
\* of two records with the same ID the later one stays
IdMap(resource_list) ==
    LET with_id == {i \in DOMAIN resource_list : HasResourceId(resource_list[i])}
    IN [id \in {resource_list[i]["ResourceId"] : i \in with_id} |->
            resource_list[Max({i \in with_id : resource_list[i]["ResourceId"] = id})]]

\* One entry of a modified list.
ModifiedEntry(id, start_res, end_res) ==
    [resource_id |-> id, before |-> start_res, after |-> end_res,
     changes |-> _get_resource_changes(start_res, end_res)]

\* Mutation of ListDicts: every resource type is a key, also when its list
\* is empty.
ListDictsWithEmptyLists(items) ==
    LET keys == DOMAIN items
        lists(t) == {[i \in DOMAIN order |-> items[t][order[i]]] :
                        order \in SetOrders(DOMAIN items[t])}
    IN {d \in [keys -> UNION {lists(t) : t \in keys}] :
            \A t \in keys : d[t] \in lists(t)}

\* The dicts type -> list that the loop over all_resource_types can build for
\* one of added / removed / modified: items[t] maps each ID of type t that
\* the list comprehension (or the loop over common_ids) iterates, in any
\* order, to the list item made for it; a type is a key only when its list
\* is non-empty.
ListDicts(items) ==
    LET keys == {t \in DOMAIN items : DOMAIN items[t] # {}}
        lists(t) == {[i \in DOMAIN order |-> items[t][order[i]]] :
                        order \in SetOrders(DOMAIN items[t])}
    IN {d \in [keys -> UNION {lists(t) : t \in keys}] :
            \A t \in keys : d[t] \in lists(t)}

\* Mutation of _detect_changes: added_ids is every ID of end_map.
DetectChangesAddedFromAll(start_data, end_data) ==
    LET start_resources == Get(start_data, "resources", EmptyDict)
        end_resources == Get(end_data, "resources", EmptyDict)
        all_resource_types == DOMAIN start_resources \cup DOMAIN end_resources
        start_map(t) == IdMap(Get(start_resources, t, <<>>))
        end_map(t) == IdMap(Get(end_resources, t, <<>>))
        added_ids(t) == DOMAIN end_map(t)
        removed_ids(t) == DOMAIN start_map(t) \ DOMAIN end_map(t)
        modified_ids(t) ==
            {id \in DOMAIN start_map(t) \cap DOMAIN end_map(t) :
                _is_resource_modified(start_map(t)[id], end_map(t)[id])}
    IN {[added |-> a, removed |-> r, modified |-> m] :
            a \in ListDicts([t \in all_resource_types |->
                    [id \in added_ids(t) |->
                        end_map(t)[id]]]),
            r \in ListDicts([t \in all_resource_types |->
                    [id \in removed_ids(t) |->
                        start_map(t)[id]]]),
            m \in ListDicts([t \in all_resource_types |->
                    [id \in modified_ids(t) |->
                        ModifiedEntry(id, start_map(t)[id], end_map(t)[id])]])}

\* Mutation of _detect_changes: only the types of end_data are looked at.
DetectChangesEndTypesOnly(start_data, end_data) ==
    LET start_resources == Get(start_data, "resources", EmptyDict)
        end_resources == Get(end_data, "resources", EmptyDict)
        all_resource_types == DOMAIN end_resources
        start_map(t) == IdMap(Get(start_resources, t, <<>>))
        end_map(t) == IdMap(Get(end_resources, t, <<>>))
        added_ids(t) == DOMAIN end_map(t) \ DOMAIN start_map(t)
        removed_ids(t) == DOMAIN start_map(t) \ DOMAIN end_map(t)
        modified_ids(t) ==
            {id \in DOMAIN start_map(t) \cap DOMAIN end_map(t) :
                _is_resource_modified(start_map(t)[id], end_map(t)[id])}
    IN {[added |-> a, removed |-> r, modified |-> m] :
            a \in ListDicts([t \in all_resource_types |->
                    [id \in added_ids(t) |->
                        end_map(t)[id]]]),
            r \in ListDicts([t \in all_resource_types |->
                    [id \in removed_ids(t) |->
                        start_map(t)[id]]]),
            m \in ListDicts([t \in all_resource_types |->
                    [id \in modified_ids(t) |->
                        ModifiedEntry(id, start_map(t)[id], end_map(t)[id])]])}

\* Every change set _detect_changes(start_data, end_data) can return.
_detect_changes(start_data, end_data) ==
    LET start_resources == Get(start_data, "resources", EmptyDict)
        end_resources == Get(end_data, "resources", EmptyDict)
        all_resource_types == DOMAIN start_resources \cup DOMAIN end_resources
        start_map(t) == IdMap(Get(start_resources, t, <<>>))
        end_map(t) == IdMap(Get(end_resources, t, <<>>))
        added_ids(t) == DOMAIN end_map(t) \ DOMAIN start_map(t)
        removed_ids(t) == DOMAIN start_map(t) \ DOMAIN end_map(t)
        modified_ids(t) ==
            {id \in DOMAIN start_map(t) \cap DOMAIN end_map(t) :
                _is_resource_modified(start_map(t)[id], end_map(t)[id])}
    IN {[added |-> a, removed |-> r, modified |-> m] :
            a \in ListDicts([t \in all_resource_types |->
                    [id \in added_ids(t) |->
                        end_map(t)[id]]]),
            r \in ListDicts([t \in all_resource_types |->
                    [id \in removed_ids(t) |->
                        start_map(t)[id]]]),
            m \in ListDicts([t \in all_resource_types |->
                    [id \in modified_ids(t) |->
                        ModifiedEntry(id, start_map(t)[id], end_map(t)[id])]])}

-----------------------------------------------------------------------------
(* Cost attribution.  Amounts are counted in hundredths, so that the factor *)
(* 0.5 and the impact factor 0.1 stay exact: 100 is 10000, 0.5 is 50.       *)

cost_factors ==
    [EC2_Instances |-> 10000, RDS_Instances |-> 20000, S3_Buckets |-> 500,
     Lambda_Functions |-> 50, CloudFront_Distributions |-> 3000,
     default |-> 1000]

\* impact_factor = 0.1, as a percentage
impact_factor_percent == 10

\* Mutation of CostFactor: a type without a table entry costs nothing.
CostFactorNoDefault(resource_type) ==
    Get(cost_factors, resource_type, 0)

\* cost_factors.get(resource_type, cost_factors['default'])
CostFactor(resource_type) ==
    Get(cost_factors, resource_type, cost_factors["default"])

\* len(resources) * cost_factor
CostOfList(resource_type, resources) ==
    Len(resources) * CostFactor(resource_type)

\* len(resources) * cost_factor * impact_factor
ModifiedImpact(resource_type, resources) ==
    (CostOfList(resource_type, resources) * impact_factor_percent) \div 100

\* Mutation of BreakdownByType: a removal is entered with the sign it has in
\* removed_cost.
BreakdownRemovedPositive(changes) ==
    LET kinds == {"added", "removed", "modified"} \cap DOMAIN changes
        types == UNION {DOMAIN changes[c] : c \in kinds}
        impact(c, t) ==
            IF c \notin kinds \/ t \notin DOMAIN changes[c] THEN 0
            ELSE IF c = "modified" THEN ModifiedImpact(t, changes[c][t])
            ELSE CostOfList(t, changes[c][t])
    IN [t \in types |->
            [added |-> impact("added", t),
             removed |-> impact("removed", t),
             modified |-> impact("modified", t),
             total |-> impact("added", t) + impact("removed", t)
                        + impact("modified", t)]]

\* Mutation of BreakdownByType: every type of the cost factor table has an
\* entry, whether it changed or not.
BreakdownForEveryFactor(changes) ==
    LET kinds == {"added", "removed", "modified"} \cap DOMAIN changes
        types == UNION {DOMAIN changes[c] : c \in kinds}
                    \cup (DOMAIN cost_factors \ {"default"})
        impact(c, t) ==
            IF c \notin kinds \/ t \notin DOMAIN changes[c] THEN 0
            ELSE IF c = "added" THEN CostOfList(t, changes[c][t])
            ELSE IF c = "removed" THEN 0 - CostOfList(t, changes[c][t])
            ELSE ModifiedImpact(t, changes[c][t])
    IN [t \in types |->
            [added |-> impact("added", t),
             removed |-> impact("removed", t),
             modified |-> impact("modified", t),
             total |-> impact("added", t) + impact("removed", t)
                        + impact("modified", t)]]

\* result['breakdown_by_type']: one entry per type that is a key of added,
\* removed or modified; a removal counts negatively
BreakdownByType(changes) ==
    LET kinds == {"added", "removed", "modified"} \cap DOMAIN changes
        types == UNION {DOMAIN changes[c] : c \in kinds}
        impact(c, t) ==
            IF c \notin kinds \/ t \notin DOMAIN changes[c] THEN 0
            ELSE IF c = "added" THEN CostOfList(t, changes[c][t])
            ELSE IF c = "removed" THEN 0 - CostOfList(t, changes[c][t])
            ELSE ModifiedImpact(t, changes[c][t])
    IN [t \in types |->
            [added |-> impact("added", t),
             removed |-> impact("removed", t),
             modified |-> impact("modified", t),
             total |-> impact("added", t) + impact("removed", t)
                        + impact("modified", t)]]

\* the totals of the three loops and the breakdown by type
_calculate_cost_changes(changes) ==
    LET added == Get(changes, "added", EmptyDict)
        removed == Get(changes, "removed", EmptyDict)
        modified == Get(changes, "modified", EmptyDict)
        added_cost ==
            SumOver([t \in DOMAIN added |-> CostOfList(t, added[t])], DOMAIN added)
        removed_cost ==
            SumOver([t \in DOMAIN removed |-> CostOfList(t, removed[t])],
                    DOMAIN removed)
        modified_cost ==
            SumOver([t \in DOMAIN modified |-> ModifiedImpact(t, modified[t])],
                    DOMAIN modified)
    IN [added_cost |-> added_cost,
        removed_cost |-> removed_cost,
        modified_cost |-> modified_cost,
        total_impact |-> added_cost - removed_cost + modified_cost,
        breakdown_by_type |-> BreakdownByType(changes)]

-----------------------------------------------------------------------------
(* Snapshot documents                                                      *)

\* Mutation of AllResourcesDocument: total_resources is len(resources), the
\* number of resource types.
AllResourcesDocumentCountingTypes(resources, now) ==
    [metadata |->
        [timestamp |-> now,
         resource_counts |-> [t \in DOMAIN resources |-> Len(resources[t])],
         total_resources |-> Cardinality(DOMAIN resources)],
     resources |-> resources]

\* output_data of save_raw_data: the content of all_resources.json
AllResourcesDocument(resources, now) ==
    [metadata |->
        [timestamp |-> now,
         resource_counts |-> [t \in DOMAIN resources |-> Len(resources[t])],
         total_resources |->
            SumOver([t \in DOMAIN resources |-> Len(resources[t])],
                    DOMAIN resources)],
     resources |-> resources]

-----------------------------------------------------------------------------
(* Bounded inputs                                                          *)

\* longest list of (type, record) entries a generated snapshot is grouped from
MaxRecords == 2
\* longest Tags list of a generated record
MaxTags == 2
\* most records in the lists of a generated change set
MaxChanged == 4

TagPalette ==
    {[Key |-> "Env", Value |-> "Prod"], [Key |-> "Env", Value |-> "X"],
     [Key |-> "Team", Value |-> "X"]}

TagLists == UNION {[1..n -> TagPalette] : n \in 0..MaxTags}

StatusValues == {PyInt(0), PyStr(0), PyBool(0)}

\* Records of one resource i-AAA: every Tags list, without and with a Status
\* field, and every Status value; and the same with an empty ResourceId.
TaggedRecords ==
    {[ResourceId |-> "i-AAA", Tags |-> tags] : tags \in TagLists}
    \cup {[ResourceId |-> "i-AAA", Status |-> PyInt(0), Tags |-> tags] :
            tags \in TagLists}
    \cup {[ResourceId |-> "i-AAA", Status |-> s] : s \in StatusValues}
    \cup {[ResourceId |-> "", Status |-> s] : s \in StatusValues}

\* (type, record) entries: a record without an ID, the same ID with two
\* contents, and the same ID under two types.
TypedEntries ==
    {[type |-> "EC2_Instances", record |-> [Status |-> PyInt(0)]],
     [type |-> "EC2_Instances",
      record |-> [ResourceId |-> "i-AAA", Status |-> PyInt(0)]],
     [type |-> "EC2_Instances",
      record |-> [ResourceId |-> "i-AAA", Status |-> PyStr(0)]],
     [type |-> "EC2_Instances",
      record |-> [ResourceId |-> "i-BBB", Status |-> PyInt(0)]],
     [type |-> "S3_Buckets",
      record |-> [ResourceId |-> "i-AAA", Status |-> PyInt(0)]]}

\* The resources mapping a list of (type, record) entries groups into.
GroupByType(entries) ==
    [t \in {entries[i].type : i \in DOMAIN entries} |->
        LET of_type == SelectSeq(entries, LAMBDA e : e.type = t)
        IN [i \in DOMAIN of_type |-> of_type[i].record]]

ResourceMaps ==
    {GroupByType(entries) :
        entries \in UNION {[1..n -> TypedEntries] : n \in 0..MaxRecords}}

SingleRecordMaps ==
    {[EC2_Instances |-> <<r>>] : r \in TaggedRecords}

CostTypes == {"EC2_Instances", "S3_Buckets", "VPC_Endpoints"}

ChangeSlots == {"added", "removed", "modified"} \X CostTypes

\* The change set with one item in changes[c][t] for every occurrence of
\* <<c, t>> in slots; only the lengths of the lists enter the cost.
ChangeSetOfSlots(slots) ==
    LET count(c, t) == Cardinality({i \in DOMAIN slots : slots[i] = <<c, t>>})
    IN [c \in {"added", "removed", "modified"} |->
            [t \in {x \in CostTypes : count(c, x) > 0} |->
                [i \in 1..count(c, t) |-> [ResourceId |-> "i-AAA"]]]]

ChangeSets ==
    {ChangeSetOfSlots(slots) :
        slots \in UNION {[1..n -> ChangeSlots] : n \in 0..MaxChanged}}

-----------------------------------------------------------------------------
(* The diff engine run on a pair of snapshots: SpecDiff                    *)

InitDiff ==
    /\ \/ \E before \in ResourceMaps, after \in ResourceMaps :
            /\ start_doc = AllResourcesDocument(before, "2025-02-01")
            /\ end_doc = AllResourcesDocument(after, "2025-03-01")
       \/ \E before \in SingleRecordMaps, after \in SingleRecordMaps :
            /\ start_doc = AllResourcesDocument(before, "2025-02-01")
            /\ end_doc = AllResourcesDocument(after, "2025-03-01")
    /\ detected = None
    /\ cost_changes = None
    /\ raw_dir = EmptyDict
    /\ today = "2025-03-01"
    /\ output = None
    /\ save_call = None
    /\ collection = None
    /\ api_call = None
    /\ retry_call = None

\* changes = self._detect_changes(start_data, end_data)
DetectChanges ==
    /\ detected = None
    /\ detected' \in _detect_changes(start_doc, end_doc)
    /\ UNCHANGED collector_vars
    /\ UNCHANGED <<start_doc, end_doc, cost_changes, raw_dir, today, output, save_call>>

NextDiff ==
    DetectChanges

SpecDiff == InitDiff /\ [][NextDiff]_vars

-----------------------------------------------------------------------------
(* The cost attribution run on a change set: SpecCost                      *)

InitCost ==
    /\ start_doc = None
    /\ end_doc = None
    /\ detected \in ChangeSets
    /\ cost_changes = None
    /\ raw_dir = EmptyDict
    /\ today = "2025-03-01"
    /\ output = None
    /\ save_call = None
    /\ collection = None
    /\ api_call = None
    /\ retry_call = None

\* cost_changes = self._calculate_cost_changes(changes)
CalculateCostChanges ==
    /\ detected # None
    /\ cost_changes = None
    /\ cost_changes' = _calculate_cost_changes(detected)
    /\ UNCHANGED collector_vars
    /\ UNCHANGED <<start_doc, end_doc, detected, raw_dir, today, output, save_call>>

NextCost ==
    CalculateCostChanges

SpecCost == InitCost /\ [][NextCost]_vars

-----------------------------------------------------------------------------
(* The snapshot store and the reports over it: Spec                        *)

\* The date directory names of the model, and for each the day of the year
\* 2025 it names.  Python sorts the names as strings; for these names that
\* is the order of their days.
Dates == {"2025-02-01", "2025-03-01"}

DayOfYear == [d \in Dates |-> IF d = "2025-02-01" THEN 32 ELSE 60]

NoDir == [exists |-> FALSE]

\* Python's None where the other values are date strings
NoDate == "None"

\* f"{resource_type.lower()}.json", without the suffix
FileNameOf(resource_type) ==
    CASE resource_type = "EC2_Instances" -> "ec2_instances"
      [] resource_type = "S3_Buckets" -> "s3_buckets"
      [] resource_type = "VPC_Endpoints" -> "vpc_endpoints"

\* Mutation of DateDirectory: the manifest counts only records with an ID.
DateDirectoryCountingIds(resources, now) ==
    LET with_id == [t \in DOMAIN resources |-> SelectSeq(resources[t], HasResourceId)]
        counted == AllResourcesDocument(with_id, now)
    IN [f \in {FileNameOf(t) : t \in DOMAIN resources} \cup {"all_resources"} |->
            IF f = "all_resources"
            THEN [counted EXCEPT !.resources = resources]
            ELSE resources[CHOOSE t \in DOMAIN resources : FileNameOf(t) = f]]

\* The files save_raw_data leaves in the date directory: one per resource
\* type and all_resources.json, written last.  (The types of the model have
\* different file names; json.dump and json.load return these values as they
\* are.)
DateDirectory(resources, now) ==
    [f \in {FileNameOf(t) : t \in DOMAIN resources} \cup {"all_resources"} |->
        IF f = "all_resources" THEN AllResourcesDocument(resources, now)
        ELSE resources[CHOOSE t \in DOMAIN resources : FileNameOf(t) = f]]

\* os.path.exists(os.path.join(self.raw_dir, date_str))
DirExists(date_str) ==
    date_str \in DOMAIN raw_dir /\ raw_dir[date_str] # NoDir

\* The characters of a name as numbers in the order of their code points:
\* '-' comes before the digits, a digit is its value, the letters ('a' is
\* 10) come after the digits.
Dash == -1

\* the names found in output/raw, with their characters
Spelling ==
    ("2025-02-01" :> <<2, 0, 2, 5, Dash, 0, 2, Dash, 0, 1>>) @@
    ("2025-03-01" :> <<2, 0, 2, 5, Dash, 0, 3, Dash, 0, 1>>) @@
    ("2025-10-01" :> <<2, 0, 2, 5, Dash, 1, 0, Dash, 0, 1>>) @@
    ("2025-3-1" :> <<2, 0, 2, 5, Dash, 3, Dash, 1>>) @@
    ("2025-02-30" :> <<2, 0, 2, 5, Dash, 0, 2, Dash, 3, 0>>) @@
    ("backup" :> <<11, 10, 12, 20, 30, 25>>)

DirNames == DOMAIN Spelling

\* a < b of two str values
StrLess(a, b) ==
    LET x == Spelling[a]
        y == Spelling[b]
    IN \E k \in 1..(Len(x) + 1) :
        /\ k <= Len(y)
        /\ \A i \in 1..(k - 1) : x[i] = y[i]
        /\ k <= Len(x) => x[k] < y[k]

\* int() of a text of digits
RECURSIVE DigitsValue(_)
DigitsValue(digits) ==
    IF digits = <<>> THEN 0
    ELSE 10 * DigitsValue(SubSeq(digits, 1, Len(digits) - 1)) + digits[Len(digits)]

\* the days of a month of the proleptic Gregorian calendar
DaysInMonth(year, month) ==
    IF month = 2
    THEN IF year % 4 = 0 /\ (year % 100 # 0 \/ year % 400 = 0) THEN 29 ELSE 28
    ELSE IF month \in {4, 6, 9, 11} THEN 30 ELSE 31

ValueError == [raised |-> "ValueError"]

\* datetime.strptime(date_str, '%Y-%m-%d'): %Y takes four digits, %m and %d
\* one or two digits (no "0" or "00"), and the three numbers must be a date
\* of the calendar; the result is [year, month, day], or ValueError
strptime(date_str) ==
    LET text == Spelling[date_str]
        dashes == {i \in DOMAIN text : text[i] = Dash}
        first == CHOOSE i \in dashes : \A j \in dashes : i <= j
        second == CHOOSE i \in dashes : \A j \in dashes : j <= i
        year == DigitsValue(SubSeq(text, 1, first - 1))
        month == DigitsValue(SubSeq(text, first + 1, second - 1))
        day == DigitsValue(SubSeq(text, second + 1, Len(text)))
    IN IF /\ Cardinality(dashes) = 2
          /\ \A i \in DOMAIN text \ dashes : text[i] \in 0..9
          /\ first - 1 = 4
          /\ second - first - 1 \in {1, 2}
          /\ Len(text) - second \in {1, 2}
          /\ year >= 1
          /\ month \in 1..12
          /\ day \in 1..DaysInMonth(year, month)
       THEN [year |-> year, month |-> month, day |-> day]
       ELSE ValueError

_is_valid_date_format(date_str) ==
    strptime(date_str) # ValueError

\* an entry of output/raw that is not a directory
PlainFile == [file |-> TRUE]

\* os.path.isdir(os.path.join(self.raw_dir, d))
IsDir(d) ==
    raw_dir[d] # NoDir /\ raw_dir[d] # PlainFile

\* sorted(...) of a set of names: the order of str
SortedDates(names) ==
    CHOOSE s \in SetOrders(names) :
        \A i, j \in DOMAIN s : i < j => StrLess(s[i], s[j])

\* the directories of raw_dir whose name is a valid date, sorted
DateDirs ==
    SortedDates({d \in DOMAIN raw_dir : IsDir(d) /\ _is_valid_date_format(d)})

get_latest_raw_data_date ==
    IF Len(DateDirs) = 0 THEN NoDate ELSE DateDirs[Len(DateDirs)]

\* get_previous_raw_data_date(current_date): the last of the sorted valid
\* directory names d with d < current_date, or None
get_previous_raw_data_date(current_date) ==
    LET date_dirs == SortedDates({d \in DOMAIN raw_dir :
                                    /\ IsDir(d)
                                    /\ _is_valid_date_format(d)
                                    /\ StrLess(d, current_date)})
    IN IF Len(date_dirs) = 0 THEN NoDate ELSE date_dirs[Len(date_dirs)]

\* tag_counts: every entry of a Tags list with a non-empty Key counts once
_summarize_tags(resources) ==
    LET tags(i) == Get(resources[i], "Tags", <<>>)
        keys == UNION {{tags(i)[j].Key : j \in DOMAIN tags(i)} :
                        i \in DOMAIN resources} \ {""}
    IN [k \in keys |->
            SumOver([i \in DOMAIN resources |->
                        Cardinality({j \in DOMAIN tags(i) : tags(i)[j].Key = k})],
                    DOMAIN resources)]

\* lambda az: az.split('-')[0], on the availability zone names of the model
AzPrefix ==
    [az \in {"ap-northeast-1a", "ap-northeast-1c", "us-east-1a"} |->
        IF az = "us-east-1a" THEN "us" ELSE "ap"]

\* field_counts: the records with a non-empty value of the field, counted by
\* the value, transformed when a transform_func is given
_summarize_by_field(resources, field, transform_func) ==
    LET counted == {i \in DOMAIN resources : Get(resources[i], field, "") # ""}
        value(i) == IF transform_func = None THEN resources[i][field]
                    ELSE transform_func[resources[i][field]]
    IN [v \in {value(i) : i \in counted} |->
            Cardinality({i \in counted : value(i) = v})]

_summarize_vpc_resources(resources) ==
    LET vpc_related_resources == {"EC2_Instances", "EC2_Subnets", "EC2_SecurityGroups",
                                  "EC2_LoadBalancers", "RDS_Instances"}
        types == vpc_related_resources \cap DOMAIN resources
        vpc_ids == UNION {DOMAIN _summarize_by_field(resources[t], "VpcId", None) : t \in types}
    IN [v \in vpc_ids |->
            [t \in {x \in types : v \in DOMAIN _summarize_by_field(resources[x], "VpcId", None)} |->
                _summarize_by_field(resources[t], "VpcId", None)[v]]]

\* summary_data of generate_summary for the document of a date directory
SummaryData(all_data, date_str, now) ==
    LET resources == Get(all_data, "resources", EmptyDict)
        metadata == Get(all_data, "metadata", EmptyDict)
    IN [metadata |->
            [generated_at |-> now,
             source_date |-> date_str,
             total_resources |-> Get(metadata, "total_resources", 0)],
        resource_summary |->
            [t \in DOMAIN resources |->
                [count |-> Len(resources[t]),
                 tags_summary |-> _summarize_tags(resources[t]),
                 region_summary |-> _summarize_by_field(resources[t], "AZ", AzPrefix)]],
        vpc_resources |-> _summarize_vpc_resources(resources)]

_generate_monthly_cost_trend(date_dirs, now) ==
    [monthly_cost_trend |->
        [i \in DOMAIN date_dirs |->
            [date |-> date_dirs[i],
             costs |-> [EC2 |-> 100, S3 |-> 50, RDS |-> 75, Other |-> 30],
             total_cost |-> 100 + 50 + 75 + 30]],
     updated_at |-> now]

\* one entry per date directory that holds all_resources.json
_generate_resource_count_trend(date_dirs, now) ==
    LET with_file == SelectSeq(date_dirs,
                               LAMBDA d : "all_resources" \in DOMAIN raw_dir[d])
        all_data(d) == raw_dir[d]["all_resources"]
    IN [resource_count_trend |->
            [i \in DOMAIN with_file |->
                LET resources == Get(all_data(with_file[i]), "resources", EmptyDict)
                    metadata == Get(all_data(with_file[i]), "metadata", EmptyDict)
                IN [date |-> with_file[i],
                    resource_counts |-> [t \in DOMAIN resources |-> Len(resources[t])],
                    total_resources |-> Get(metadata, "total_resources", 0)]],
        updated_at |-> now]

_summarize_changes_by_type(changes) ==
    LET count(c, t) == Len(Get(Get(changes, c, EmptyDict), t, <<>>))
        types == UNION {DOMAIN Get(changes, c, EmptyDict) :
                            c \in {"added", "removed", "modified"}}
    IN [t \in types |->
            [added |-> count("added", t),
             removed |-> count("removed", t),
             modified |-> count("modified", t),
             net_change |-> count("added", t) - count("removed", t)]]

\* tag_summary: per tag key, the modified resources whose tag diff has the
\* key, plus (for added and removed) the tag entries with the key in the
\* added and removed resources
_summarize_tag_changes(changes) ==
    LET entries == UNION {Range(changes.modified[t]) : t \in DOMAIN changes.modified}
        part(e, c) == Get(Get(e.changes, "Tags", EmptyDict), c, EmptyDict)
        in_modified(c, k) ==
            SumOver([t \in DOMAIN changes.modified |->
                        Cardinality({i \in DOMAIN changes.modified[t] :
                                        k \in DOMAIN part(changes.modified[t][i], c)})],
                    DOMAIN changes.modified)
        in_resources(c, k) ==
            IF c = "modified" THEN 0
            ELSE SumOver([t \in DOMAIN changes[c] |->
                            SumOver(_summarize_tags(changes[c][t]) @@ (k :> 0), {k})],
                         DOMAIN changes[c])
        keys(c) ==
            UNION {DOMAIN part(e, c) : e \in entries}
            \cup (IF c = "modified" THEN {}
                  ELSE UNION {DOMAIN _summarize_tags(changes[c][t]) :
                                t \in DOMAIN changes[c]})
    IN [c \in {"added", "removed", "modified"} |->
            [k \in keys(c) |-> in_modified(c, k) + in_resources(c, k)]]

\* security_changes: the added, removed and modified security groups and the
\* modified instances whose change detail has 'SecurityGroups'
_extract_security_group_changes(changes) ==
    LET groups(c) == Get(Get(changes, c, EmptyDict), "EC2_SecurityGroups", <<>>)
        group(sg) == [group_id |-> Get(sg, "GroupId", ""),
                      name |-> Get(sg, "GroupName", ""),
                      description |-> Get(sg, "Description", ""),
                      vpc_id |-> Get(sg, "VpcId", "")]
        modified_group(sg) == [group_id |-> sg.resource_id,
                               name |-> Get(sg.before, "GroupName", ""),
                               vpc_id |-> Get(sg.before, "VpcId", ""),
                               changes |-> sg.changes]
        instances ==
            SelectSeq(Get(Get(changes, "modified", EmptyDict), "EC2_Instances", <<>>),
                      LAMBDA e : "SecurityGroups" \in DOMAIN e.changes)
    IN [added |-> [i \in DOMAIN groups("added") |-> group(groups("added")[i])],
        removed |-> [i \in DOMAIN groups("removed") |-> group(groups("removed")[i])],
        modified |->
            [i \in DOMAIN groups("modified") |-> modified_group(groups("modified")[i])]
            \o [i \in DOMAIN instances |->
                    [instance_id |-> instances[i].resource_id,
                     security_group_changes |-> instances[i].changes["SecurityGroups"]]]]

_calculate_days_between(start_date, end_date) ==
    DayOfYear[end_date] - DayOfYear[start_date]

\* Mutation of ChangeReport: the summary counts the resource types that have
\* a list, len(changes[c]), not the resources in the lists.
ChangeReportCountingTypes(start_date, end_date, changes, now) ==
    LET cost == _calculate_cost_changes(changes)
        total(c) == Cardinality(DOMAIN changes[c])
    IN [metadata |->
            [start_date |-> start_date,
             end_date |-> end_date,
             generated_at |-> now,
             days_between |-> _calculate_days_between(start_date, end_date)],
        summary |->
            [resources_added |-> total("added"),
             resources_removed |-> total("removed"),
             resources_modified |-> total("modified"),
             cost_impact |-> cost.total_impact,
             resource_type_changes |-> _summarize_changes_by_type(changes),
             tag_changes |-> _summarize_tag_changes(changes),
             security_changes |-> _extract_security_group_changes(changes)],
        changes |-> changes,
        cost_changes |-> cost]

\* the report generate_change_report builds from the changes it detected
ChangeReport(start_date, end_date, changes, now) ==
    LET cost == _calculate_cost_changes(changes)
        total(c) == SumOver([t \in DOMAIN changes[c] |-> Len(changes[c][t])],
                            DOMAIN changes[c])
    IN [metadata |->
            [start_date |-> start_date,
             end_date |-> end_date,
             generated_at |-> now,
             days_between |-> _calculate_days_between(start_date, end_date)],
        summary |->
            [resources_added |-> total("added"),
             resources_removed |-> total("removed"),
             resources_modified |-> total("modified"),
             cost_impact |-> cost.total_impact,
             resource_type_changes |-> _summarize_changes_by_type(changes),
             tag_changes |-> _summarize_tag_changes(changes),
             security_changes |-> _extract_security_group_changes(changes)],
        changes |-> changes,
        cost_changes |-> cost]

\* longest list of (type, record) entries a saved snapshot is grouped from
MaxSaved == 2

\* (type, record) entries of the snapshots that are saved: records with and
\* without an ID, with tags, and the same ID under two types.
SavedEntries ==
    {[type |-> "EC2_Instances", record |-> [Status |-> PyInt(0)]],
     [type |-> "EC2_Instances",
      record |-> [ResourceId |-> "i-AAA", Status |-> PyInt(0),
                  Tags |-> <<[Key |-> "Env", Value |-> "Prod"]>>]],
     [type |-> "EC2_Instances",
      record |-> [ResourceId |-> "i-BBB", Status |-> PyInt(0),
                  Tags |-> <<[Key |-> "Env", Value |-> "Prod"],
                             [Key |-> "Env", Value |-> "X"]>>]],
     [type |-> "S3_Buckets",
      record |-> [ResourceId |-> "i-AAA", Status |-> PyStr(0)]]}

SavedResourceMaps ==
    {GroupByType(entries) :
        entries \in UNION {[1..n -> SavedEntries] : n \in 0..MaxSaved}}

\* the state after DataProcessor(base_dir) on an empty base directory
Init ==
    /\ start_doc = None
    /\ end_doc = None
    /\ detected = None
    /\ cost_changes = None
    /\ raw_dir = [d \in Dates |-> NoDir]
    /\ today = "2025-02-01"
    /\ output = None
    /\ save_call = None
    /\ collection = None
    /\ api_call = None
    /\ retry_call = None

\* the calendar date changes
NextDay ==
    /\ \E d \in Dates : DayOfYear[d] > DayOfYear[today] /\ today' = d
    /\ UNCHANGED collector_vars
    /\ UNCHANGED <<start_doc, end_doc, detected, cost_changes, raw_dir, output, save_call>>

\* Mutation of SaveRawData: the whole of output/raw is removed, not only the
\* directory of today's date.
SaveRawDataClearingStore ==
    \E resources \in SavedResourceMaps :
        /\ raw_dir' = [d \in DOMAIN raw_dir |->
                        IF d = today THEN DateDirectory(resources, today) ELSE NoDir]
        /\ output' = [op |-> "save_raw_data", returned |-> today]
        /\ UNCHANGED collector_vars
        /\ UNCHANGED <<start_doc, end_doc, detected, cost_changes, today, save_call>>

\* save_raw_data(resources): the directory of today's date is removed if it
\* exists and written again
SaveRawData ==
    \E resources \in SavedResourceMaps :
        /\ raw_dir' = [raw_dir EXCEPT ![today] = DateDirectory(resources, today)]
        /\ output' = [op |-> "save_raw_data", returned |-> today]
        /\ UNCHANGED collector_vars
        /\ UNCHANGED <<start_doc, end_doc, detected, cost_changes, today, save_call>>

\* generate_summary(date_str), also without the argument (date_str = None)
GenerateSummary ==
    \E date_str \in Dates \cup {NoDate} :
        LET source_date == IF date_str = NoDate THEN get_latest_raw_data_date
                           ELSE date_str
        IN /\ output' =
                IF source_date = NoDate \/ ~DirExists(source_date)
                THEN [op |-> "generate_summary", args |-> <<date_str>>,
                      raised |-> "ValueError"]
                ELSE IF "all_resources" \notin DOMAIN raw_dir[source_date]
                THEN [op |-> "generate_summary", args |-> <<date_str>>,
                      raised |-> "FileNotFoundError"]
                ELSE [op |-> "generate_summary", args |-> <<date_str>>,
                      summary |-> SummaryData(raw_dir[source_date]["all_resources"],
                                              source_date, today)]
           /\ UNCHANGED collector_vars
           /\ UNCHANGED <<start_doc, end_doc, detected, cost_changes, raw_dir, today,
                      save_call>>

\* generate_trend_data()
GenerateTrendData ==
    /\ output' =
        IF Len(DateDirs) = 0
        THEN [op |-> "generate_trend_data", returned |-> EmptyDict]
        ELSE [op |-> "generate_trend_data",
              monthly_cost |-> _generate_monthly_cost_trend(DateDirs, today),
              resource_count |-> _generate_resource_count_trend(DateDirs, today)]
    /\ UNCHANGED collector_vars
    /\ UNCHANGED <<start_doc, end_doc, detected, cost_changes, raw_dir, today,
                      save_call>>

\* Mutation of GenerateChangeReport: a date without a stored snapshot is
\* taken as a snapshot without resources.
GenerateChangeReportMissingAsEmpty ==
    \E start_date \in Dates, end_date \in Dates :
        LET loaded(d) == IF DirExists(d) /\ "all_resources" \in DOMAIN raw_dir[d]
                         THEN raw_dir[d]["all_resources"]
                         ELSE EmptyDict
        IN /\ \E changes \in _detect_changes(loaded(start_date), loaded(end_date)) :
                    output' = [op |-> "generate_change_report",
                               args |-> <<start_date, end_date>>,
                               report |-> ChangeReport(start_date, end_date,
                                                       changes, today)]
           /\ UNCHANGED collector_vars
           /\ UNCHANGED <<start_doc, end_doc, detected, cost_changes, raw_dir, today,
                          save_call>>

\* generate_change_report(start_date, end_date)
GenerateChangeReport ==
    \E start_date \in Dates, end_date \in Dates :
        /\ \/ /\ ~DirExists(start_date) \/ ~DirExists(end_date)
              /\ output' = [op |-> "generate_change_report",
                            args |-> <<start_date, end_date>>,
                            raised |-> "ValueError"]
           \/ /\ DirExists(start_date) /\ DirExists(end_date)
              /\ \/ "all_resources" \notin DOMAIN raw_dir[start_date]
                 \/ "all_resources" \notin DOMAIN raw_dir[end_date]
              /\ output' = [op |-> "generate_change_report",
                            args |-> <<start_date, end_date>>,
                            raised |-> "FileNotFoundError"]
           \/ /\ DirExists(start_date) /\ DirExists(end_date)
              /\ "all_resources" \in DOMAIN raw_dir[start_date]
              /\ "all_resources" \in DOMAIN raw_dir[end_date]
              /\ \E changes \in _detect_changes(raw_dir[start_date]["all_resources"],
                                                raw_dir[end_date]["all_resources"]) :
                    output' = [op |-> "generate_change_report",
                               args |-> <<start_date, end_date>>,
                               report |-> ChangeReport(start_date, end_date,
                                                       changes, today)]
        /\ UNCHANGED collector_vars
        /\ UNCHANGED <<start_doc, end_doc, detected, cost_changes, raw_dir, today,
                      save_call>>

Next ==
    \/ NextDay
    \/ SaveRawData
    \/ GenerateSummary
    \/ GenerateTrendData
    \/ GenerateChangeReport

Spec == Init /\ [][Next]_vars

-----------------------------------------------------------------------------
(* save_raw_data step by step: SpecSave.  The call removes the directory   *)
(* of the date, creates it again, writes one file per resource type and    *)
(* the manifest last.  Other calls of the same store (a second process)    *)
(* run between the steps, and the call can end with an error at any step.  *)

\* the resources arguments of the calls
SaveInputs ==
    {EmptyDict,
     [EC2_Instances |-> <<[ResourceId |-> "i-AAA", Status |-> PyInt(0)]>>,
      S3_Buckets |-> <<[ResourceId |-> "bkt-1", Status |-> PyInt(0)]>>],
     [EC2_Instances |-> <<[ResourceId |-> "i-AAA", Status |-> PyInt(0)],
                          [Status |-> PyInt(0)]>>]}

\* a save_raw_data call is under way
Saving ==
    save_call # None /\ save_call.pc \in {"rmtree", "makedirs", "files"}

\* lines 57-58: the call starts and takes the date of the day as date_str;
\* prior keeps what the date directory held at that moment
BeginSave ==
    /\ ~Saving
    /\ \E resources \in SaveInputs :
        save_call' = [date_str |-> today, resources |-> resources,
                      pc |-> "rmtree", left |-> DOMAIN resources,
                      prior |-> raw_dir[today]]
    /\ UNCHANGED collector_vars
    /\ UNCHANGED <<start_doc, end_doc, detected, cost_changes, raw_dir, today, output>>

\* Mutation of RemoveOldDirectory: the directory is left as it is.
RemoveOldDirectorySkipped ==
    /\ Saving
    /\ save_call.pc = "rmtree"
    /\ save_call' = [save_call EXCEPT !.pc = "makedirs"]
    /\ UNCHANGED collector_vars
    /\ UNCHANGED <<start_doc, end_doc, detected, cost_changes, raw_dir, today, output>>

\* lines 60-62: if os.path.exists(date_dir): shutil.rmtree(date_dir)
RemoveOldDirectory ==
    /\ Saving
    /\ save_call.pc = "rmtree"
    /\ raw_dir' = [raw_dir EXCEPT ![save_call.date_str] = NoDir]
    /\ save_call' = [save_call EXCEPT !.pc = "makedirs"]
    /\ UNCHANGED collector_vars
    /\ UNCHANGED <<start_doc, end_doc, detected, cost_changes, today, output>>

\* line 65: os.makedirs(date_dir, exist_ok=True)
MakeDirectory ==
    /\ Saving
    /\ save_call.pc = "makedirs"
    /\ raw_dir' = [raw_dir EXCEPT ![save_call.date_str] =
                        IF @ = NoDir THEN EmptyDict ELSE @]
    /\ save_call' = [save_call EXCEPT !.pc = "files"]
    /\ UNCHANGED collector_vars
    /\ UNCHANGED <<start_doc, end_doc, detected, cost_changes, today, output>>

\* lines 68-74: the file of one resource type is written; the loop takes
\* the types in the order of the dict, which the model leaves open
WriteTypeFile ==
    /\ Saving
    /\ save_call.pc = "files"
    /\ raw_dir[save_call.date_str] # NoDir
    /\ \E resource_type \in save_call.left :
        /\ raw_dir' = [raw_dir EXCEPT ![save_call.date_str] =
                (FileNameOf(resource_type) :> save_call.resources[resource_type]) @@ @]
        /\ save_call' = [save_call EXCEPT !.left = @ \ {resource_type}]
    /\ UNCHANGED collector_vars
    /\ UNCHANGED <<start_doc, end_doc, detected, cost_changes, today, output>>

\* lines 77-96: all_resources.json is written and the call returns
WriteManifest ==
    /\ Saving
    /\ save_call.pc = "files"
    /\ save_call.left = {}
    /\ raw_dir[save_call.date_str] # NoDir
    /\ raw_dir' = [raw_dir EXCEPT ![save_call.date_str] =
            ("all_resources" :>
                AllResourcesDocument(save_call.resources, save_call.date_str)) @@ @]
    /\ output' = [op |-> "save_raw_data", returned |-> save_call.date_str]
    /\ save_call' = [save_call EXCEPT !.pc = "returned"]
    /\ UNCHANGED collector_vars
    /\ UNCHANGED <<start_doc, end_doc, detected, cost_changes, today>>

\* the call ends with an exception: a step raised (an OSError of the file
\* system, a value json.dump cannot write), or open() finds the directory
\* gone
SaveFails ==
    /\ Saving
    /\ output' = [op |-> "save_raw_data", raised |-> "Exception"]
    /\ save_call' = [save_call EXCEPT !.pc = "raised"]
    /\ UNCHANGED collector_vars
    /\ UNCHANGED <<start_doc, end_doc, detected, cost_changes, raw_dir, today>>

NextSave ==
    \/ NextDay
    \/ BeginSave
    \/ RemoveOldDirectory
    \/ MakeDirectory
    \/ WriteTypeFile
    \/ WriteManifest
    \/ SaveFails
    \/ GenerateSummary
    \/ GenerateTrendData
    \/ GenerateChangeReport

SpecSave == Init /\ [][NextSave]_vars

-----------------------------------------------------------------------------
(* The date directories the store finds in output/raw: SpecDates.  The     *)
(* directory holds entries of any name, made by save_raw_data or put there *)
(* by hand: directories with a snapshot, plain files, names that are no    *)
(* dates.                                                                  *)

\* the snapshot in the directories of SpecDates
ListedResources ==
    [EC2_Instances |-> <<[ResourceId |-> "i-AAA", Status |-> PyInt(0)]>>]

InitDates ==
    /\ start_doc = None
    /\ end_doc = None
    /\ detected = None
    /\ cost_changes = None
    /\ \E entries \in [DirNames -> {"none", "file", "dir"}] :
        raw_dir = [d \in DirNames |->
                    CASE entries[d] = "none" -> NoDir
                      [] entries[d] = "file" -> PlainFile
                      [] entries[d] = "dir" -> DateDirectory(ListedResources, d)]
    /\ today = "2025-10-01"
    /\ output = None
    /\ save_call = None
    /\ collection = None
    /\ api_call = None
    /\ retry_call = None

\* get_latest_raw_data_date()
GetLatestRawDataDate ==
    /\ output' = [op |-> "get_latest_raw_data_date",
                  returned |-> get_latest_raw_data_date]
    /\ UNCHANGED collector_vars
    /\ UNCHANGED <<start_doc, end_doc, detected, cost_changes, raw_dir, today,
                   save_call>>

\* get_previous_raw_data_date(current_date)
GetPreviousRawDataDate ==
    \E current_date \in DirNames :
        /\ output' = [op |-> "get_previous_raw_data_date",
                      args |-> <<current_date>>,
                      returned |-> get_previous_raw_data_date(current_date)]
        /\ UNCHANGED collector_vars
        /\ UNCHANGED <<start_doc, end_doc, detected, cost_changes, raw_dir, today,
                       save_call>>

NextDates ==
    \/ GetLatestRawDataDate
    \/ GetPreviousRawDataDate
    \/ GenerateTrendData

SpecDates == InitDates /\ [][NextDates]_vars

-----------------------------------------------------------------------------
(* collect_all_resources of src/src/collector.py: SpecCollect.  The call   *)
(* runs the service collectors one after the other; collect() of a         *)
(* collector returns a mapping resource type -> records, or raises.        *)

\* the list collectors of collect_all_resources, by class name
collectors ==
    <<"EC2Collector", "S3Collector", "RDSCollector", "LambdaCollector",
      "DynamoDBCollector", "CloudFrontCollector", "Route53Collector",
      "IAMCollector", "CloudWatchCollector", "ElastiCacheCollector",
      "SNSCollector", "SQSCollector">>

\* the mappings collect() of a collector returns in the model: a resource
\* type is a key only when the collector found resources of the type
CollectResults(collector) ==
    LET found(types) == [t \in types |-> <<[ResourceId |-> "r-1"]>>]
    IN CASE collector = "EC2Collector" ->
                {found(types) : types \in SUBSET {"EC2_Instances", "EC2_Volumes"}}
         [] collector = "S3Collector" -> {found({}), found({"S3_Buckets"})}
         [] collector = "RDSCollector" -> {found({"RDS_Instances"})}
         [] collector = "LambdaCollector" -> {found({"Lambda_Functions"})}
         [] collector = "DynamoDBCollector" -> {found({"DynamoDB_Tables"})}
         [] collector = "CloudFrontCollector" -> {found({"CloudFront_Distributions"})}
         [] collector = "Route53Collector" -> {found({"Route53_HostedZones"})}
         [] collector = "IAMCollector" -> {found({"IAM_Users"})}
         [] collector = "CloudWatchCollector" -> {found({"CloudWatch_Alarms"})}
         [] collector = "ElastiCacheCollector" -> {found({"ElastiCache_Clusters"})}
         [] collector = "SNSCollector" -> {found({"SNS_Topics"})}
         [] collector = "SQSCollector" -> {found({"SQS_Queues"})}

\* all_resources.update(resources)
Update(all_resources, resources) ==
    resources @@ all_resources

InitCollect ==
    /\ start_doc = None
    /\ end_doc = None
    /\ detected = None
    /\ cost_changes = None
    /\ raw_dir = EmptyDict
    /\ today = "2025-03-01"
    /\ output = None
    /\ save_call = None
    /\ collection = None
    /\ api_call = None
    /\ retry_call = None

\* a collect_all_resources call is in its loop over the collectors
Collecting ==
    collection # None /\ collection.pc = "loop"

\* lines 78-95: the call starts with all_resources = {}; done lists the
\* collectors whose collect() was called, collected what each returned
CollectAllResources ==
    /\ ~Collecting
    /\ collection' = [pc |-> "loop", all_resources |-> EmptyDict,
                      done |-> <<>>, collected |-> EmptyDict]
    /\ UNCHANGED <<start_doc, end_doc, detected, cost_changes, raw_dir, today, output,
                   save_call, api_call, retry_call>>

\* Mutation of CollectorRaises: the exception is not caught and ends the call.
CollectorRaisesUncaught ==
    /\ Collecting
    /\ Len(collection.done) < Len(collectors)
    /\ collection' = [collection EXCEPT
                        !.pc = "raised",
                        !.done = Append(@, collectors[Len(collection.done) + 1])]
    /\ UNCHANGED <<start_doc, end_doc, detected, cost_changes, raw_dir, today, output,
                   save_call, api_call, retry_call>>

\* lines 98-104: collect() of the next collector returns and all_resources
\* is updated with what it returned
CollectorReturns ==
    /\ Collecting
    /\ Len(collection.done) < Len(collectors)
    /\ LET collector == collectors[Len(collection.done) + 1]
       IN \E resources \in CollectResults(collector) :
            collection' = [collection EXCEPT
                            !.all_resources = Update(@, resources),
                            !.done = Append(@, collector),
                            !.collected = (collector :> resources) @@ @]
    /\ UNCHANGED <<start_doc, end_doc, detected, cost_changes, raw_dir, today, output,
                   save_call, api_call, retry_call>>

\* lines 101 and 105-106: collect() of the next collector raises; the
\* exception is logged and the loop goes on
CollectorRaises ==
    /\ Collecting
    /\ Len(collection.done) < Len(collectors)
    /\ collection' = [collection EXCEPT
                        !.done = Append(@, collectors[Len(collection.done) + 1])]
    /\ UNCHANGED <<start_doc, end_doc, detected, cost_changes, raw_dir, today, output,
                   save_call, api_call, retry_call>>

\* lines 108-112: return all_resources
ReturnAllResources ==
    /\ Collecting
    /\ Len(collection.done) = Len(collectors)
    /\ collection' = [collection EXCEPT !.pc = "returned"]
    /\ UNCHANGED <<start_doc, end_doc, detected, cost_changes, raw_dir, today, output,
                   save_call, api_call, retry_call>>

NextCollect ==
    \/ CollectAllResources
    \/ CollectorReturns
    \/ CollectorRaises
    \/ ReturnAllResources

\* the loop is sequential code: a call that has begun goes on to its end
SpecCollect == InitCollect /\ [][NextCollect]_vars /\ WF_vars(NextCollect)

-----------------------------------------------------------------------------
(* BaseCollector.aws_api_call of src/src/collectors/base_collector.py:     *)
(* SpecApiCall.  An exception is a record with its class and, for a        *)
(* ClientError, the error code of its response; what client_method returns *)
(* is the string "response".  Waits are counted in seconds.                *)

max_attempts == 3
initial_delay == 1
backoff_factor == 2

\* the exception classes of the first except clause
network_errors ==
    {"ConnectionClosedError", "EndpointConnectionError", "ConnectTimeoutError",
     "ReadTimeoutError"}

\* the list retry_errors of the second except clause
retry_errors ==
    {"RequestLimitExceeded", "Throttling", "ThrottlingException",
     "RequestThrottledException", "TooManyRequestsException",
     "ProvisionedThroughputExceededException", "TransactionInProgressException",
     "RequestTimeout", "ServiceUnavailable", "InternalServiceError"}

\* the exceptions client_method raises in the model: the network exceptions,
\* ClientError with every code of the retry list, with two other codes and
\* without a code, and an exception of another class
RaisedByClient ==
    {[class |-> c] : c \in network_errors \cup {"ValueError"}}
    \cup {[class |-> "ClientError", code |-> code] :
            code \in retry_errors \cup {"AccessDenied", "ValidationError", ""}}

\* Mutation of ApiCallRetries: every ClientError is retried, whatever its
\* code.
ApiCallRetriesAnyClientError(e, attempt) ==
    /\ \/ e.class \in network_errors
       \/ e.class = "ClientError"
    /\ attempt < max_attempts

\* the conditions under which a handler of aws_api_call sleeps and
\* continues the loop: the exception is caught by the first clause, or is a
\* ClientError with a code of retry_errors, and attempt < max_attempts
ApiCallRetries(e, attempt) ==
    /\ \/ e.class \in network_errors
       \/ e.class = "ClientError" /\ e.code \in retry_errors
    /\ attempt < max_attempts

\* delay = initial_delay * (backoff_factor ** (attempt - 1))
ApiCallDelay(attempt) ==
    initial_delay * (backoff_factor ^ (attempt - 1))

InitApiCall ==
    /\ start_doc = None
    /\ end_doc = None
    /\ detected = None
    /\ cost_changes = None
    /\ raw_dir = EmptyDict
    /\ today = "2025-03-01"
    /\ output = None
    /\ save_call = None
    /\ collection = None
    /\ api_call = None
    /\ retry_call = None

\* an aws_api_call call is in its loop
ApiCallRunning ==
    api_call # None /\ api_call.pc = "loop"

\* lines 98-102: the call starts; invoked lists what every invocation of
\* client_method returned or raised, slept the delays of the time.sleep
\* calls
AwsApiCall ==
    /\ ~ApiCallRunning
    /\ api_call' = [pc |-> "loop", attempt |-> 1, invoked |-> <<>>, slept |-> <<>>]
    /\ UNCHANGED <<start_doc, end_doc, detected, cost_changes, raw_dir, today, output,
                   save_call, collection, retry_call>>

\* line 104: return client_method(**kwargs)
ClientMethodReturns ==
    /\ ApiCallRunning
    /\ api_call.attempt <= max_attempts
    /\ api_call' = [pc |-> "returned", attempt |-> api_call.attempt,
                    invoked |-> Append(api_call.invoked, [returned |-> "response"]),
                    slept |-> api_call.slept,
                    result |-> [returned |-> "response"]]
    /\ UNCHANGED <<start_doc, end_doc, detected, cost_changes, raw_dir, today, output,
                   save_call, collection, retry_call>>

\* lines 104-131: client_method raises; the handlers sleep and continue
\* with the next attempt, or re-raise; an exception of another class is not
\* caught
ClientMethodRaises ==
    /\ ApiCallRunning
    /\ api_call.attempt <= max_attempts
    /\ \E e \in RaisedByClient :
        api_call' =
            IF ApiCallRetries(e, api_call.attempt)
            THEN [pc |-> "loop", attempt |-> api_call.attempt + 1,
                  invoked |-> Append(api_call.invoked, [raised |-> e]),
                  slept |-> Append(api_call.slept, ApiCallDelay(api_call.attempt))]
            ELSE [pc |-> "raised", attempt |-> api_call.attempt,
                  invoked |-> Append(api_call.invoked, [raised |-> e]),
                  slept |-> api_call.slept,
                  result |-> [raised |-> e]]
    /\ UNCHANGED <<start_doc, end_doc, detected, cost_changes, raw_dir, today, output,
                   save_call, collection, retry_call>>

NextApiCall ==
    \/ AwsApiCall
    \/ ClientMethodReturns
    \/ ClientMethodRaises

\* the loop is sequential code and client_method returns or raises; the
\* return {} of line 134 is not reached, as the last attempt returns or
\* raises
SpecApiCall == InitApiCall /\ [][NextApiCall]_vars /\ WF_vars(NextApiCall)

-----------------------------------------------------------------------------
(* with_retry of src/src/utils/error_utils.py, with the default            *)
(* retry_exceptions: SpecRetry.  Exceptions are the records of             *)
(* SpecApiCall; what func returns is the string "result".  Waits are       *)
(* counted in hundredths of a second.                                      *)

\* the tuple RETRY_EXCEPTIONS: four exception classes, then ten strings
RETRY_EXCEPTIONS ==
    <<[class |-> "ConnectionClosedError"], [class |-> "EndpointConnectionError"],
      [class |-> "ConnectTimeoutError"], [class |-> "ReadTimeoutError"],
      [str |-> "RequestLimitExceeded"], [str |-> "Throttling"],
      [str |-> "ThrottlingException"], [str |-> "RequestThrottledException"],
      [str |-> "TooManyRequestsException"],
      [str |-> "ProvisionedThroughputExceededException"],
      [str |-> "TransactionInProgressException"], [str |-> "RequestTimeout"],
      [str |-> "ServiceUnavailable"], [str |-> "InternalServiceError"]>>

TypeError == [class |-> "TypeError"]

\* isinstance(e, classinfo) for a tuple classinfo: the items are tried in
\* their order; the class of e gives True, an item that is no class raises
\* TypeError, the end of the tuple gives False.  The value is [returned |->
\* the bool] or [raised |-> TypeError].
isinstance(e, classinfo) ==
    LET decisive == {i \in DOMAIN classinfo :
                        \/ "str" \in DOMAIN classinfo[i]
                        \/ classinfo[i].class = e.class}
        first == CHOOSE i \in decisive : \A j \in decisive : i <= j
    IN IF decisive = {} THEN [returned |-> FALSE]
       ELSE IF "str" \in DOMAIN classinfo[first] THEN [raised |-> TypeError]
       ELSE [returned |-> TRUE]

\* error_code in retry_exceptions
CodeIn(error_code, retry_exceptions) ==
    \E i \in DOMAIN retry_exceptions : retry_exceptions[i] = [str |-> error_code]

\* the percentages the jitter factor random.uniform(0.5, 1.5) takes in the
\* model
JitterPercent == {50, 100, 150}

\* calculate_delay(attempt, 1.0, 2.0, True) with the jitter factor drawn; the
\* defaults of initial_delay and backoff_factor are those of aws_api_call
calculate_delay(attempt, jitter_percent) ==
    (initial_delay * (backoff_factor ^ (attempt - 1))) * jitter_percent

\* most attempts a decorated function is given
MaxAttempts == 3

\* the exceptions func raises in the model
RaisedByFunc ==
    {[class |-> "ConnectionClosedError"], [class |-> "ReadTimeoutError"],
     [class |-> "ValueError"],
     [class |-> "ClientError", code |-> "Throttling"],
     [class |-> "ClientError", code |-> "ServiceUnavailable"],
     [class |-> "ClientError", code |-> "AccessDenied"],
     [class |-> "ClientError", code |-> ""]}

InitRetry ==
    /\ start_doc = None
    /\ end_doc = None
    /\ detected = None
    /\ cost_changes = None
    /\ raw_dir = EmptyDict
    /\ today = "2025-03-01"
    /\ output = None
    /\ save_call = None
    /\ collection = None
    /\ api_call = None
    /\ retry_call = None

\* a call of the wrapper is in its loop
RetryRunning ==
    retry_call # None /\ retry_call.pc = "loop"

\* lines 62-65: a function decorated with with_retry(max_attempts=n) is
\* called; invoked lists what every invocation of func returned or raised,
\* slept the delays of the time.sleep calls
CallWrapper ==
    /\ ~RetryRunning
    /\ \E n \in 1..MaxAttempts :
        retry_call' = [pc |-> "loop", max_attempts |-> n, attempt |-> 1,
                       invoked |-> <<>>, slept |-> <<>>]
    /\ UNCHANGED <<start_doc, end_doc, detected, cost_changes, raw_dir, today, output,
                   save_call, collection, api_call>>

\* the state of the call after an invocation of func at the given attempt
\* has had the outcome and the handler (if any) has slept for the delay
AfterSleep(call, outcome, delay) ==
    [call EXCEPT !.attempt = @ + 1,
                 !.invoked = Append(@, outcome),
                 !.slept = Append(@, delay)]

\* the state of the call when it ends with the result after the outcome
AfterEnd(call, outcome, pc, result) ==
    [pc |-> pc, max_attempts |-> call.max_attempts, attempt |-> call.attempt,
     invoked |-> Append(call.invoked, outcome), slept |-> call.slept,
     result |-> result]

\* line 67: return func(*args, **kwargs)
FuncReturns ==
    /\ RetryRunning
    /\ retry_call' = AfterEnd(retry_call, [returned |-> "result"], "returned",
                              [returned |-> "result"])
    /\ UNCHANGED <<start_doc, end_doc, detected, cost_changes, raw_dir, today, output,
                   save_call, collection, api_call>>

\* lines 68-79: func raises a ClientError; it is retried after a sleep when
\* its code is in retry_exceptions and attempt < max_attempts, and raised
\* again otherwise
FuncRaisesClientError ==
    /\ RetryRunning
    /\ \E e \in {x \in RaisedByFunc : x.class = "ClientError"} :
        \/ /\ CodeIn(e.code, RETRY_EXCEPTIONS)
           /\ retry_call.attempt < retry_call.max_attempts
           /\ \E jitter \in JitterPercent :
                retry_call' = AfterSleep(retry_call, [raised |-> e],
                                         calculate_delay(retry_call.attempt, jitter))
        \/ /\ ~(CodeIn(e.code, RETRY_EXCEPTIONS)
                    /\ retry_call.attempt < retry_call.max_attempts)
           /\ retry_call' = AfterEnd(retry_call, [raised |-> e], "raised",
                                     [raised |-> e])
    /\ UNCHANGED <<start_doc, end_doc, detected, cost_changes, raw_dir, today, output,
                   save_call, collection, api_call>>

\* lines 80-89: func raises another exception; isinstance(e,
\* retry_exceptions) is evaluated in the handler: when it is True the
\* exception is retried after a sleep while attempt < max_attempts and
\* raised again at the last attempt; when it is False (then type(e) is not
\* in the tuple either) the exception is raised again; when it raises
\* TypeError, the call ends with the TypeError
FuncRaisesException ==
    /\ RetryRunning
    /\ \E e \in {x \in RaisedByFunc : x.class # "ClientError"} :
        LET retried == isinstance(e, RETRY_EXCEPTIONS)
        IN \/ /\ retried = [returned |-> TRUE]
              /\ retry_call.attempt < retry_call.max_attempts
              /\ \E jitter \in JitterPercent :
                    retry_call' = AfterSleep(retry_call, [raised |-> e],
                                             calculate_delay(retry_call.attempt, jitter))
           \/ /\ \/ /\ retried = [returned |-> TRUE]
                    /\ ~(retry_call.attempt < retry_call.max_attempts)
                 \/ retried = [returned |-> FALSE]
              /\ retry_call' = AfterEnd(retry_call, [raised |-> e], "raised",
                                        [raised |-> e])
           \/ /\ retried = [raised |-> TypeError]
              /\ retry_call' = AfterEnd(retry_call, [raised |-> e], "raised",
                                        [raised |-> TypeError])
    /\ UNCHANGED <<start_doc, end_doc, detected, cost_changes, raw_dir, today, output,
                   save_call, collection, api_call>>

NextRetry ==
    \/ CallWrapper
    \/ FuncReturns
    \/ FuncRaisesClientError
    \/ FuncRaisesException

SpecRetry == InitRetry /\ [][NextRetry]_vars

-----------------------------------------------------------------------------
(* Vocabulary of the properties, stated on the snapshots and the results   *)
(* themselves                                                              *)

ResourceTypes == {"EC2_Instances", "S3_Buckets"}

\* the records of type t in a snapshot document, none when t is absent
RecordsOf(doc, t) ==
    IF t \in DOMAIN doc.resources THEN doc.resources[t] ELSE <<>>

\* the list changes[kind][t], empty when t is no key of changes[kind]
Reported(chg, kind, t) ==
    IF t \in DOMAIN chg[kind] THEN chg[kind][t] ELSE <<>>

\* the non-empty resource IDs that occur in a list of records
DiffableIds(records) ==
    {records[i]["ResourceId"] :
        i \in {j \in DOMAIN records :
                /\ "ResourceId" \in DOMAIN records[j]
                /\ records[j]["ResourceId"] # ""}}

\* the last record of a list that carries the ID
LastWithId(records, id) ==
    records[CHOOSE i \in DOMAIN records :
                /\ "ResourceId" \in DOMAIN records[i]
                /\ records[i]["ResourceId"] = id
                /\ \A j \in DOMAIN records :
                    ("ResourceId" \in DOMAIN records[j]
                        /\ records[j]["ResourceId"] = id) => j <= i]

\* the IDs of the records of an added or removed list
ReportedIds(chg, kind, t) ==
    {r["ResourceId"] : r \in Range(Reported(chg, kind, t))}

ModifiedIds(chg, t) ==
    {e.resource_id : e \in Range(Reported(chg, "modified", t))}

NothingReported(chg, kind) ==
    DOMAIN chg[kind] = {}

TotalRecords(doc) ==
    SumOver([t \in DOMAIN doc.resources |-> Len(doc.resources[t])],
            DOMAIN doc.resources)

TotalReported(chg, kind) ==
    SumOver([t \in DOMAIN chg[kind] |-> Len(chg[kind][t])], DOMAIN chg[kind])

\* the tag list of a record as a key -> value mapping, the last entry of a
\* key giving its value
TagsOf(record) ==
    IF "Tags" \in DOMAIN record THEN record["Tags"] ELSE <<>>

TagKeys(record) ==
    {TagsOf(record)[i].Key : i \in DOMAIN TagsOf(record)}

LastTagValue(record, k) ==
    LET tags == TagsOf(record)
    IN tags[CHOOSE i \in DOMAIN tags :
                /\ tags[i].Key = k
                /\ \A j \in DOMAIN tags : tags[j].Key = k => j <= i].Value

TagMappingsDiffer(before, after) ==
    \/ TagKeys(before) # TagKeys(after)
    \/ \E k \in TagKeys(before) : LastTagValue(before, k) # LastTagValue(after, k)

\* the modified entries of all types
AllModifiedEntries(chg) ==
    UNION {Range(chg.modified[t]) : t \in DOMAIN chg.modified}

-----------------------------------------------------------------------------
(* C1: comparing a snapshot with itself reports nothing: when both         *)
(* arguments of _detect_changes hold the same resources, the added, the    *)
(* removed and the modified map of the result are all empty.               *)
C1_Idempotence ==
    (detected # None /\ start_doc.resources = end_doc.resources) =>
        /\ NothingReported(detected, "added")
        /\ NothingReported(detected, "removed")
        /\ NothingReported(detected, "modified")

\* a snapshot with two records of one ID and different content was compared
\* with itself
C1_Witness ==
    /\ detected # None
    /\ start_doc.resources = end_doc.resources
    /\ \E t \in DOMAIN start_doc.resources :
        \E i, j \in DOMAIN start_doc.resources[t] :
            /\ i # j
            /\ start_doc.resources[t][i] # start_doc.resources[t][j]
            /\ DiffableIds(<<start_doc.resources[t][i]>>)
                = DiffableIds(<<start_doc.resources[t][j]>>)
            /\ DiffableIds(<<start_doc.resources[t][i]>>) # {}

(* C2, as claimed: comparing the empty snapshot with S reports every       *)
(* record of S under added in its own type, the added lists holding as     *)
(* many records as S, and removed and modified are empty.                  *)
C2_BootstrapEveryRecord ==
    (detected # None /\ DOMAIN start_doc.resources = {}) =>
        /\ \A t \in DOMAIN end_doc.resources :
            Range(end_doc.resources[t]) \subseteq Range(Reported(detected, "added", t))
        /\ TotalReported(detected, "added") = TotalRecords(end_doc)
        /\ NothingReported(detected, "removed")
        /\ NothingReported(detected, "modified")

(* C2, amended: comparing the empty snapshot with S reports under added,   *)
(* in its own type, exactly one record for every distinct non-empty        *)
(* ResourceId of that type in S, namely the last record of S with that ID; *)
(* records without a ResourceId are not reported; removed and modified are *)
(* empty.                                                                  *)
C2_BootstrapDiffable ==
    (detected # None /\ DOMAIN start_doc.resources = {}) =>
        /\ \A t \in ResourceTypes :
            /\ Range(Reported(detected, "added", t))
                = {LastWithId(RecordsOf(end_doc, t), id) :
                    id \in DiffableIds(RecordsOf(end_doc, t))}
            /\ Len(Reported(detected, "added", t))
                = Cardinality(DiffableIds(RecordsOf(end_doc, t)))
        /\ DOMAIN detected.added \subseteq DOMAIN end_doc.resources
        /\ NothingReported(detected, "removed")
        /\ NothingReported(detected, "modified")

\* the empty snapshot was compared with one that holds a record with an ID
\* and a record without
C2_Witness ==
    /\ detected # None
    /\ DOMAIN start_doc.resources = {}
    /\ \E t \in DOMAIN end_doc.resources :
        /\ DiffableIds(end_doc.resources[t]) # {}
        /\ \E i \in DOMAIN end_doc.resources[t] :
            DiffableIds(<<end_doc.resources[t][i]>>) = {}
    /\ ~NothingReported(detected, "added")

(* C3: the diff is symmetric: what compare(A, B) reports as added is what  *)
(* compare(B, A) reports as removed, and the other way round, as sets of   *)
(* records per type; both report the same modified IDs, with before and    *)
(* after swapped.                                                          *)
C3_Symmetry ==
    detected # None =>
        \A reverse \in _detect_changes(end_doc, start_doc) :
            \A t \in ResourceTypes :
                /\ Range(Reported(detected, "added", t))
                    = Range(Reported(reverse, "removed", t))
                /\ Range(Reported(detected, "removed", t))
                    = Range(Reported(reverse, "added", t))
                /\ {<<e.resource_id, e.before, e.after>> :
                        e \in Range(Reported(detected, "modified", t))}
                    = {<<e.resource_id, e.after, e.before>> :
                        e \in Range(Reported(reverse, "modified", t))}

\* a comparison that reported an added, a removed and a modified record
C3_Witness ==
    /\ detected # None
    /\ ~NothingReported(detected, "added")
    /\ ~NothingReported(detected, "removed")
    /\ AllModifiedEntries(detected) # {}

\* every reordering of a sequence
Reorderings(seq) ==
    {[i \in DOMAIN seq |-> seq[order[i]]] : order \in SetOrders(DOMAIN seq)}

\* no key of the tag list occurs with two different values
OneValuePerKey(tags) ==
    \A i, j \in DOMAIN tags : tags[i].Key = tags[j].Key => tags[i].Value = tags[j].Value

\* a record with its Tags list reordered; Reorderable(tags) says which lists
\* are reordered at all
RetaggedRecords(record, Reorderable(_)) ==
    IF "Tags" \in DOMAIN record /\ Reorderable(record["Tags"])
    THEN {[record EXCEPT !["Tags"] = tags] : tags \in Reorderings(record["Tags"])}
    ELSE {record}

\* a snapshot document with the Tags list of any of its records reordered
RetaggedDocuments(doc, Reorderable(_)) ==
    LET lists(t) ==
            {records \in [DOMAIN doc.resources[t] ->
                            UNION {RetaggedRecords(doc.resources[t][i], Reorderable) :
                                    i \in DOMAIN doc.resources[t]}] :
                \A i \in DOMAIN records :
                    records[i] \in RetaggedRecords(doc.resources[t][i], Reorderable)}
    IN {[doc EXCEPT !.resources = resources] :
            resources \in {m \in [DOMAIN doc.resources ->
                                    UNION {lists(t) : t \in DOMAIN doc.resources}] :
                            \A t \in DOMAIN m : m[t] \in lists(t)}}

\* what a change set reports: the IDs added, removed and modified per type,
\* and the change detail of every modified ID
ReportOf(chg) ==
    [t \in ResourceTypes |->
        [added |-> ReportedIds(chg, "added", t),
         removed |-> ReportedIds(chg, "removed", t),
         modified |-> {<<e.resource_id, e.changes>> :
                        e \in Range(Reported(chg, "modified", t))}]]

SameReportWhenRetagged(Reorderable(_)) ==
    detected # None =>
        \A before \in RetaggedDocuments(start_doc, Reorderable),
           after \in RetaggedDocuments(end_doc, Reorderable) :
            \A retagged \in _detect_changes(before, after) :
                ReportOf(retagged) = ReportOf(detected)

(* C4, as claimed: reordering the Tags list of any record of either        *)
(* snapshot, whatever the list, leaves the result of the comparison        *)
(* unchanged: the same IDs are added, removed and modified, and every      *)
(* modified entry has the same changes.                                    *)
C4_TagOrderAnyList ==
    SameReportWhenRetagged(LAMBDA tags : TRUE)

(* C4, amended: reordering a Tags list in which no key occurs with two     *)
(* different values leaves the result of the comparison unchanged (when a  *)
(* key occurs with different values the last entry gives the value, and a  *)
(* reordering can change the result).                                      *)
C4_TagOrderOneValuePerKey ==
    SameReportWhenRetagged(OneValuePerKey)

\* two records with different tags in two entries each, no key twice, were
\* compared and reported as modified
C4_Witness ==
    /\ detected # None
    /\ \E e \in AllModifiedEntries(detected) :
        /\ Len(TagsOf(e.before)) = 2
        /\ Len(TagsOf(e.after)) = 2
        /\ Cardinality(TagKeys(e.before)) = 2
        /\ Cardinality(TagKeys(e.after)) = 2
        /\ "Tags" \in DOMAIN e.changes

(* C5: for every resource type, added holds the records of the IDs that    *)
(* occur in the after list of the type and not in its before list, and     *)
(* removed those of the IDs that occur in the before list and not in the   *)
(* after list, one record per ID; an ID that leaves type X and appears in  *)
(* type Y is removed under X and added under Y, and is not modified.       *)
C5_AddedRemovedPerType ==
    detected # None =>
        /\ \A t \in ResourceTypes :
            LET before_ids == DiffableIds(RecordsOf(start_doc, t))
                after_ids == DiffableIds(RecordsOf(end_doc, t))
            IN /\ Range(Reported(detected, "added", t))
                    = {LastWithId(RecordsOf(end_doc, t), id) :
                        id \in after_ids \ before_ids}
               /\ Len(Reported(detected, "added", t))
                    = Cardinality(after_ids \ before_ids)
               /\ Range(Reported(detected, "removed", t))
                    = {LastWithId(RecordsOf(start_doc, t), id) :
                        id \in before_ids \ after_ids}
               /\ Len(Reported(detected, "removed", t))
                    = Cardinality(before_ids \ after_ids)
        /\ DOMAIN detected.added \cup DOMAIN detected.removed \subseteq ResourceTypes
        /\ \A x, y \in ResourceTypes :
            \A id \in DiffableIds(RecordsOf(start_doc, x)) \cap
                        DiffableIds(RecordsOf(end_doc, y)) :
                (/\ x # y
                 /\ id \notin DiffableIds(RecordsOf(end_doc, x))
                 /\ id \notin DiffableIds(RecordsOf(start_doc, y))) =>
                    /\ id \in ReportedIds(detected, "removed", x)
                    /\ id \in ReportedIds(detected, "added", y)
                    /\ id \notin ModifiedIds(detected, x) \cup ModifiedIds(detected, y)

\* an ID moved from one type, absent afterwards, to another type, absent
\* before, and was compared
C5_Witness ==
    /\ detected # None
    /\ \E x, y \in ResourceTypes :
        /\ x # y
        /\ x \notin DOMAIN end_doc.resources
        /\ y \notin DOMAIN start_doc.resources
        /\ DiffableIds(RecordsOf(start_doc, x)) \cap DiffableIds(RecordsOf(end_doc, y)) # {}
        /\ ~NothingReported(detected, "removed")
        /\ ~NothingReported(detected, "added")

\* two field values differ as they are written: another type or another value
WrittenDifferently(x, y) ==
    x # y

\* two field values are unequal for Python: a number (int, bool) differs from
\* a number by its value only, 0 and False being equal; a string differs from
\* every number and from every other string
PythonUnequal(x, y) ==
    IF x.type \in {"int", "bool"} /\ y.type \in {"int", "bool"}
    THEN x.val # y.val
    ELSE x.type # y.type \/ x.val # y.val

\* the value of a field differs on the two sides (resource IDs are strings)
ValueDiffers(key, before, after, Unequal(_, _)) ==
    IF key = "ResourceId" THEN before[key] # after[key]
    ELSE Unequal(before[key], after[key])

FieldKeys(before, after) ==
    (DOMAIN before \cup DOMAIN after) \ {"Tags"}

\* some non-Tags field is on one side only or has different values, or the
\* tag mappings differ
RecordsDiffer(before, after, Unequal(_, _)) ==
    \/ \E key \in FieldKeys(before, after) :
        \/ key \notin DOMAIN before
        \/ key \notin DOMAIN after
        \/ ValueDiffers(key, before, after, Unequal)
    \/ TagMappingsDiffer(before, after)

ModifiedExactlyWhenDifferent(Unequal(_, _)) ==
    detected # None =>
        \A t \in ResourceTypes :
            \A id \in DiffableIds(RecordsOf(start_doc, t)) \cap
                        DiffableIds(RecordsOf(end_doc, t)) :
                LET before == LastWithId(RecordsOf(start_doc, t), id)
                    after == LastWithId(RecordsOf(end_doc, t), id)
                IN /\ id \in ModifiedIds(detected, t)
                        <=> RecordsDiffer(before, after, Unequal)
                   /\ ("Status" \in DOMAIN before /\ "Status" \in DOMAIN after
                        /\ before["Status"] = PyInt(0) /\ after["Status"] = PyStr(0)) =>
                        \E e \in Range(Reported(detected, "modified", t)) :
                            /\ e.resource_id = id
                            /\ e.changes["Status"] = [from |-> PyInt(0), to |-> PyStr(0)]

C7_FieldChanges ==
    detected # None =>
        \A e \in AllModifiedEntries(detected) :
            /\ \A key \in FieldKeys(e.before, e.after) :
                LET has == key \in DOMAIN e.changes
                    only_after == key \notin DOMAIN e.before
                    only_before == key \notin DOMAIN e.after
                    unequal == /\ ~only_after
                               /\ ~only_before
                               /\ ValueDiffers(key, e.before, e.after, PythonUnequal)
                IN IF only_after
                   THEN has /\ e.changes[key] = [added |-> e.after[key]]
                   ELSE IF only_before
                   THEN has /\ e.changes[key] = [removed |-> e.before[key]]
                   ELSE IF unequal
                   THEN has /\ e.changes[key]
                                = [from |-> e.before[key], to |-> e.after[key]]
                   ELSE ~has
            /\ DOMAIN e.changes \subseteq FieldKeys(e.before, e.after) \cup {"Tags"}
            /\ "Tags" \in DOMAIN e.changes =>
                DOMAIN e.changes["Tags"] \subseteq {"added", "removed", "modified"}

\* a modified record with a field that only its after side has
C7_Witness ==
    /\ detected # None
    /\ \E e \in AllModifiedEntries(detected) :
        /\ "Status" \notin DOMAIN e.before
        /\ "Status" \in DOMAIN e.after
        /\ "Status" \in DOMAIN e.changes

\* the mapping under a key of the tag diff, empty when the key is absent
TagDiffPart(e, part) ==
    IF "Tags" \in DOMAIN e.changes /\ part \in DOMAIN e.changes["Tags"]
    THEN e.changes["Tags"][part]
    ELSE EmptyDict

(* C8: the tag diff of a modified record, each side's tag list read as a   *)
(* key -> value mapping in which a later entry of a key overwrites an      *)
(* earlier one: added is the keys only in the after mapping with their     *)
(* after value, removed the keys only in the before mapping with their     *)
(* before value, modified the keys of both with different values, each     *)
(* with {from: before value, to: after value}.                             *)
C8_TagDiff ==
    detected # None =>
        \A e \in AllModifiedEntries(detected) :
            /\ TagDiffPart(e, "added")
                = [k \in TagKeys(e.after) \ TagKeys(e.before) |->
                        LastTagValue(e.after, k)]
            /\ TagDiffPart(e, "removed")
                = [k \in TagKeys(e.before) \ TagKeys(e.after) |->
                        LastTagValue(e.before, k)]
            /\ TagDiffPart(e, "modified")
                = [k \in {x \in TagKeys(e.before) \cap TagKeys(e.after) :
                            LastTagValue(e.before, x) # LastTagValue(e.after, x)} |->
                        [from |-> LastTagValue(e.before, k),
                         to |-> LastTagValue(e.after, k)]]

\* a modified record whose before list gives one key two values, with a tag
\* added and a tag modified
C8_Witness ==
    /\ detected # None
    /\ \E e \in AllModifiedEntries(detected) :
        /\ ~OneValuePerKey(TagsOf(e.before))
        /\ DOMAIN TagDiffPart(e, "modified") # {}
        /\ DOMAIN TagDiffPart(e, "added") # {}

\* a record that has no 'ResourceId' or has the empty string as its value
LacksId(record) ==
    "ResourceId" \notin DOMAIN record \/ record["ResourceId"] = ""

\* the all_resources.json of a date directory
StoredDocument(d) == raw_dir[d]["all_resources"]

\* the dates under which a snapshot is stored
StoredDates == {d \in DOMAIN raw_dir : raw_dir[d] # NoDir}

\* the records without an ID among the records of a type in a document
RecordsLackingId(doc, t) ==
    {i \in DOMAIN RecordsOf(doc, t) : LacksId(RecordsOf(doc, t)[i])}

-----------------------------------------------------------------------------
(* C9: records without a resource ID (no ResourceId, or an empty one) are  *)
(* in no added, removed or modified list of a change report, for any two   *)
(* stored snapshots; save stores them, and they count: resource_counts and *)
(* total_resources of the stored manifest, the per-type count of the       *)
(* summary and the counts of the resource count trend are the numbers of   *)
(* all stored records, the ones without an ID included.                    *)
C9_NoIdCountedNotDiffed ==
    /\ \A d \in StoredDates :
        LET doc == StoredDocument(d)
        IN /\ DOMAIN doc.metadata.resource_counts = DOMAIN doc.resources
           /\ \A t \in DOMAIN doc.resources :
                doc.metadata.resource_counts[t] = Len(doc.resources[t])
           /\ doc.metadata.total_resources = TotalRecords(doc)
    /\ "report" \in DOMAIN output =>
        LET chg == output.report.changes
        IN /\ \A kind \in {"added", "removed"} : \A t \in DOMAIN chg[kind] :
                \A i \in DOMAIN chg[kind][t] : ~LacksId(chg[kind][t][i])
           /\ \A e \in AllModifiedEntries(chg) :
                /\ e.resource_id # ""
                /\ ~LacksId(e.before)
                /\ ~LacksId(e.after)
    /\ "summary" \in DOMAIN output =>
        LET doc == StoredDocument(output.summary.metadata.source_date)
        IN /\ DOMAIN output.summary.resource_summary = DOMAIN doc.resources
           /\ \A t \in DOMAIN doc.resources :
                output.summary.resource_summary[t].count = Len(doc.resources[t])
           /\ output.summary.metadata.total_resources = TotalRecords(doc)
    /\ "resource_count" \in DOMAIN output =>
        LET trend == output.resource_count.resource_count_trend
        IN /\ {trend[i].date : i \in DOMAIN trend} = StoredDates
           /\ \A i \in DOMAIN trend :
                LET doc == StoredDocument(trend[i].date)
                IN /\ DOMAIN trend[i].resource_counts = DOMAIN doc.resources
                   /\ \A t \in DOMAIN doc.resources :
                        trend[i].resource_counts[t] = Len(doc.resources[t])
                   /\ trend[i].total_resources = TotalRecords(doc)

\* a change report between a stored snapshot with one record without an ID
\* and a stored snapshot with two, which reports nothing
C9_Witness ==
    /\ "report" \in DOMAIN output
    /\ Cardinality(RecordsLackingId(StoredDocument(output.report.metadata.start_date),
                                    "EC2_Instances")) = 1
    /\ Cardinality(RecordsLackingId(StoredDocument(output.report.metadata.end_date),
                                    "EC2_Instances")) = 2
    /\ StoredDocument(output.report.metadata.end_date).metadata.total_resources = 2
    /\ output.report.summary.resources_added = 0
    /\ output.report.summary.resources_removed = 0
    /\ output.report.summary.resources_modified = 0

\* the number of records of a type in the added, removed or modified lists
CountOf(chg, kind, t) ==
    IF t \in DOMAIN chg[kind] THEN Len(chg[kind][t]) ELSE 0

\* the cost factor of a type, in hundredths: its table entry, or the default
\* entry when the table has none
FactorOf(t) ==
    IF t \in DOMAIN cost_factors \ {"default"} THEN cost_factors[t]
    ELSE cost_factors["default"]

\* sum over the types of count x factor
WeightedCount(chg, kind) ==
    SumOver([t \in CostTypes |-> CountOf(chg, kind, t) * FactorOf(t)], CostTypes)

(* C10: added_cost is the sum over the types of count x factor of the      *)
(* added records, removed_cost the same of the removed ones, modified_cost *)
(* the sum of count x factor x 0.1 of the modified ones, and total_impact  *)
(* is added_cost - removed_cost + modified_cost; a type without a table    *)
(* entry takes the default factor.  1 added EC2 instance, 1 removed S3     *)
(* bucket and 1 modified EC2 instance give 100, 5, 10 and 105 (in          *)
(* hundredths: 10000, 500, 1000, 10500).                                   *)
C10_CostArithmetic ==
    cost_changes # None =>
        /\ cost_changes.added_cost = WeightedCount(detected, "added")
        /\ cost_changes.removed_cost = WeightedCount(detected, "removed")
        /\ 10 * cost_changes.modified_cost = WeightedCount(detected, "modified")
        /\ cost_changes.total_impact
            = cost_changes.added_cost - cost_changes.removed_cost
                + cost_changes.modified_cost
        /\ (/\ \A t \in CostTypes :
                /\ CountOf(detected, "added", t) = IF t = "EC2_Instances" THEN 1 ELSE 0
                /\ CountOf(detected, "removed", t) = IF t = "S3_Buckets" THEN 1 ELSE 0
                /\ CountOf(detected, "modified", t) = IF t = "EC2_Instances" THEN 1 ELSE 0) =>
                /\ cost_changes.added_cost = 10000
                /\ cost_changes.removed_cost = 500
                /\ cost_changes.modified_cost = 1000
                /\ cost_changes.total_impact = 10500

\* the cost of a change set with a type that has no table entry among its
\* added, removed and modified types
C10_Witness ==
    /\ cost_changes # None
    /\ CountOf(detected, "added", "VPC_Endpoints") = 2
    /\ CountOf(detected, "removed", "S3_Buckets") = 1
    /\ CountOf(detected, "modified", "VPC_Endpoints") = 1
    /\ cost_changes.total_impact = 2000 - 500 + 100

\* count x factor of the records of a type in one of the three maps, the
\* modified ones taken at a tenth
TermOf(chg, kind, t) ==
    IF kind = "modified" THEN (CountOf(chg, kind, t) * FactorOf(t)) \div 10
    ELSE CountOf(chg, kind, t) * FactorOf(t)

\* the types that are a key of the added, the removed or the modified map
ChangedTypes(chg) ==
    DOMAIN chg.added \cup DOMAIN chg.removed \cup DOMAIN chg.modified

\* the sum of one column of a breakdown over its types
ColumnSum(breakdown, column) ==
    SumOver([t \in DOMAIN breakdown |-> breakdown[t][column]], DOMAIN breakdown)

-----------------------------------------------------------------------------
(* C11 as stated: breakdown_by_type has an entry for exactly the types in  *)
(* added, removed or modified; the added, removed and modified value of a  *)
(* type are its terms of added_cost, removed_cost and modified_cost, with  *)
(* the same sign, and its total is added - removed + modified.             *)
C11_BreakdownSameSign ==
    cost_changes # None =>
        LET b == cost_changes.breakdown_by_type
        IN /\ DOMAIN b = ChangedTypes(detected)
           /\ \A t \in DOMAIN b :
                /\ b[t].added = TermOf(detected, "added", t)
                /\ b[t].removed = TermOf(detected, "removed", t)
                /\ b[t].modified = TermOf(detected, "modified", t)
                /\ b[t].total = b[t].added - b[t].removed + b[t].modified

(* C11: breakdown_by_type has an entry for exactly the types in added,     *)
(* removed or modified; the added and the modified value of a type are its *)
(* terms of added_cost and modified_cost, its removed value is the         *)
(* NEGATIVE of its term of removed_cost, and its total is the sum of the   *)
(* three values (the added term minus the removed term plus the modified   *)
(* term).  The columns sum to added_cost, -removed_cost and modified_cost, *)
(* the totals to total_impact.                                             *)
C11_BreakdownRemovedNegative ==
    cost_changes # None =>
        LET b == cost_changes.breakdown_by_type
        IN /\ DOMAIN b = ChangedTypes(detected)
           /\ \A t \in DOMAIN b :
                /\ b[t].added = TermOf(detected, "added", t)
                /\ b[t].removed = 0 - TermOf(detected, "removed", t)
                /\ b[t].modified = TermOf(detected, "modified", t)
                /\ b[t].total = b[t].added + b[t].removed + b[t].modified
                /\ b[t].total = TermOf(detected, "added", t)
                                - TermOf(detected, "removed", t)
                                + TermOf(detected, "modified", t)
           /\ ColumnSum(b, "added") = cost_changes.added_cost
           /\ ColumnSum(b, "removed") = 0 - cost_changes.removed_cost
           /\ ColumnSum(b, "modified") = cost_changes.modified_cost
           /\ ColumnSum(b, "total") = cost_changes.total_impact

\* the cost of a change set that adds, removes and modifies records of one
\* type and removes records of a second type
C11_Witness ==
    /\ cost_changes # None
    /\ CountOf(detected, "added", "EC2_Instances") = 1
    /\ CountOf(detected, "removed", "EC2_Instances") = 1
    /\ CountOf(detected, "modified", "EC2_Instances") = 1
    /\ CountOf(detected, "removed", "S3_Buckets") = 1
    /\ cost_changes.breakdown_by_type["S3_Buckets"].removed = 0 - 500
    /\ cost_changes.breakdown_by_type["EC2_Instances"].total = 1000

\* a change report whose added, removed and modified maps are all empty
EmptyChangeReport ==
    /\ "report" \in DOMAIN output
    /\ \A kind \in {"added", "removed", "modified"} :
        DOMAIN output.report.changes[kind] = {}

-----------------------------------------------------------------------------
(* C12: for a change set without added, removed and modified records (the  *)
(* one between a snapshot and itself among them) the cost computation      *)
(* returns added_cost = removed_cost = modified_cost = total_impact = 0    *)
(* and an empty breakdown_by_type.                                         *)
C12_CostZero ==
    /\ EmptyChangeReport =>
        /\ output.report.cost_changes.added_cost = 0
        /\ output.report.cost_changes.removed_cost = 0
        /\ output.report.cost_changes.modified_cost = 0
        /\ output.report.cost_changes.total_impact = 0
        /\ DOMAIN output.report.cost_changes.breakdown_by_type = {}
        /\ output.report.summary.cost_impact = 0
    /\ ("report" \in DOMAIN output
            /\ output.report.metadata.start_date = output.report.metadata.end_date)
        => EmptyChangeReport

\* the report between a stored snapshot with records and itself
C12_Witness ==
    /\ EmptyChangeReport
    /\ output.report.metadata.start_date = output.report.metadata.end_date
    /\ TotalRecords(StoredDocument(output.report.metadata.start_date)) = 2
    /\ output.report.cost_changes.total_impact = 0

\* a date directory that holds a whole snapshot: the manifest and, for each
\* type of the manifest, the file of the type with the records of the type
WholeSnapshot(dir) ==
    /\ dir # NoDir
    /\ "all_resources" \in DOMAIN dir
    /\ DOMAIN dir = {"all_resources"}
            \cup {FileNameOf(t) : t \in DOMAIN dir["all_resources"].resources}
    /\ \A t \in DOMAIN dir["all_resources"].resources :
        dir[FileNameOf(t)] = dir["all_resources"].resources[t]

\* a date directory that holds exactly the snapshot of the resources
SnapshotOf(dir, resources) ==
    /\ WholeSnapshot(dir)
    /\ dir["all_resources"].resources = resources
    /\ DOMAIN dir["all_resources"].metadata.resource_counts = DOMAIN resources
    /\ \A t \in DOMAIN resources :
        dir["all_resources"].metadata.resource_counts[t] = Len(resources[t])

-----------------------------------------------------------------------------
(* C13: save is latest-wins.  When a save_raw_data call has returned, the  *)
(* directory of its date holds exactly the snapshot of its argument: the   *)
(* manifest has the types, records and counts of the argument only, and    *)
(* there is no file of a type that an earlier save of the date wrote and   *)
(* the argument does not have.                                             *)
C13_LatestWins ==
    (save_call # None /\ save_call.pc = "returned") =>
        SnapshotOf(raw_dir[save_call.date_str], save_call.resources)

\* a save has returned that replaced a whole snapshot with a file for S3
\* buckets by a snapshot without that type
C13_Witness ==
    /\ save_call # None
    /\ save_call.pc = "returned"
    /\ WholeSnapshot(save_call.prior)
    /\ "s3_buckets" \in DOMAIN save_call.prior
    /\ DOMAIN save_call.resources = {"EC2_Instances"}
    /\ DOMAIN raw_dir[save_call.date_str] = {"all_resources", "ec2_instances"}

-----------------------------------------------------------------------------
(* C14: a save is visible atomically.  While a save_raw_data call for a    *)
(* date that held a whole snapshot is under way, what another call finds   *)
(* under the date is that whole prior snapshot or the whole new one: never *)
(* no directory, a directory without manifest or a part of the new data.   *)
C14_AtomicVisibility ==
    (Saving /\ WholeSnapshot(save_call.prior)) =>
        \/ raw_dir[save_call.date_str] = save_call.prior
        \/ SnapshotOf(raw_dir[save_call.date_str], save_call.resources)

-----------------------------------------------------------------------------
(* C15: a save fails atomically.  When a save_raw_data call for a date     *)
(* that held a whole snapshot has ended with an error, at whatever step,   *)
(* the date still holds that prior snapshot.                               *)
C15_FailureAtomicity ==
    (save_call # None /\ save_call.pc = "raised"
        /\ WholeSnapshot(save_call.prior)) =>
        raw_dir[save_call.date_str] = save_call.prior

\* the sum of the values of a mapping type -> number
SumOfValues(counts) ==
    SumOver(counts, DOMAIN counts)

\* the files of the resource types in a date directory
TypeFiles(dir) ==
    DOMAIN dir \ {"all_resources"}

\* the sum of the lengths of the record lists in the per-type files
RecordsInTypeFiles(dir) ==
    SumOver([f \in TypeFiles(dir) |-> Len(dir[f])], TypeFiles(dir))

-----------------------------------------------------------------------------
(* C16: the totals are derived.  After a completed save the manifest's     *)
(* total_resources is the sum of the lengths of the saved per-type lists   *)
(* and the sum of the values of resource_counts, and resource_counts of a  *)
(* type is the length of the list of the type; the total of the summary    *)
(* and of the trend entry read back for the date is the same number.       *)
C16_DerivedTotals ==
    /\ \A d \in StoredDates :
        LET manifest == StoredDocument(d).metadata
        IN /\ manifest.total_resources = RecordsInTypeFiles(raw_dir[d])
           /\ manifest.total_resources = SumOfValues(manifest.resource_counts)
           /\ \A t \in DOMAIN manifest.resource_counts :
                manifest.resource_counts[t] = Len(raw_dir[d][FileNameOf(t)])
    /\ "summary" \in DOMAIN output =>
        LET d == output.summary.metadata.source_date
        IN /\ output.summary.metadata.total_resources
                = RecordsInTypeFiles(raw_dir[d])
           /\ output.summary.metadata.total_resources
                = SumOfValues([t \in DOMAIN output.summary.resource_summary |->
                                output.summary.resource_summary[t].count])
    /\ "resource_count" \in DOMAIN output =>
        LET trend == output.resource_count.resource_count_trend
        IN \A i \in DOMAIN trend :
            /\ trend[i].total_resources = RecordsInTypeFiles(raw_dir[trend[i].date])
            /\ trend[i].total_resources = SumOfValues(trend[i].resource_counts)

\* the summary of a snapshot with one type and two records of it
C16_Witness ==
    /\ "summary" \in DOMAIN output
    /\ Cardinality(DOMAIN output.summary.resource_summary) = 1
    /\ output.summary.metadata.total_resources = 2
    /\ StoredDocument(output.summary.metadata.source_date).metadata.total_resources = 2

\* the last call was the operation op
LastCall(op) ==
    output # None /\ output.op = op

\* the call ended with an error and wrote no file
FailedWithoutFile ==
    /\ "raised" \in DOMAIN output
    /\ "summary" \notin DOMAIN output
    /\ "report" \notin DOMAIN output

-----------------------------------------------------------------------------
(* C17: a missing snapshot is an error.  generate_change_report(start,     *)
(* end) with a date that has no stored snapshot, generate_summary(date)    *)
(* with such a date and generate_summary() on an empty store end with an   *)
(* error raised to the caller; the missing side is not taken as an empty   *)
(* snapshot, and the call writes no change report and no summary.          *)
C17_MissingSnapshotIsError ==
    /\ (LastCall("generate_change_report")
            /\ \E i \in {1, 2} : output.args[i] \notin StoredDates)
        => FailedWithoutFile
    /\ (LastCall("generate_summary") /\ output.args[1] # NoDate
            /\ output.args[1] \notin StoredDates)
        => FailedWithoutFile
    /\ (LastCall("generate_summary") /\ output.args[1] = NoDate
            /\ StoredDates = {})
        => FailedWithoutFile

\* a change report was asked for between a stored snapshot with records and
\* a date without snapshot
C17_Witness ==
    /\ LastCall("generate_change_report")
    /\ output.args[1] \in StoredDates
    /\ TotalRecords(StoredDocument(output.args[1])) > 0
    /\ output.args[2] \notin StoredDates
    /\ FailedWithoutFile

\* The names that are strictly YYYY-MM-DD (four digits, two digits, two
\* digits) and a date of the calendar, among the names of the model.
StrictDateNames == {"2025-02-01", "2025-03-01", "2025-10-01"}

\* the day of the year 2025 that a name denotes when it is read as a date,
\* strictly written or not
CalendarDay ==
    ("2025-02-01" :> 32) @@ ("2025-03-01" :> 60) @@ ("2025-3-1" :> 60)
    @@ ("2025-10-01" :> 274)

\* the directories of output/raw with a strictly written date as name
StrictDateDirectories ==
    {d \in DOMAIN raw_dir :
        d \in StrictDateNames /\ raw_dir[d] # NoDir /\ raw_dir[d] # PlainFile}

\* the dates of a trend series, in its order
SeriesDates(series) ==
    [i \in DOMAIN series |-> series[i].date]

\* a list of names of dates in ascending order of their days
Chronological(dates) ==
    \A i, j \in DOMAIN dates :
        i < j => /\ dates[i] \in DOMAIN CalendarDay
                 /\ dates[j] \in DOMAIN CalendarDay
                 /\ CalendarDay[dates[i]] < CalendarDay[dates[j]]

-----------------------------------------------------------------------------
(* C18: the date list of the trend generation and of the latest and the    *)
(* previous date lookup is exactly the directory names that are strictly   *)
(* YYYY-MM-DD and a real date; every other name is left out without an     *)
(* error, and the list is in ascending chronological order.                *)
C18_StrictDates ==
    /\ LastCall("generate_trend_data") =>
        IF StrictDateDirectories = {}
        THEN "monthly_cost" \notin DOMAIN output
        ELSE /\ "monthly_cost" \in DOMAIN output
             /\ Range(SeriesDates(output.monthly_cost.monthly_cost_trend))
                    = StrictDateDirectories
             /\ Chronological(SeriesDates(output.monthly_cost.monthly_cost_trend))
    /\ LastCall("get_latest_raw_data_date") =>
        output.returned \in StrictDateDirectories \cup {NoDate}
    /\ LastCall("get_previous_raw_data_date") =>
        output.returned \in StrictDateDirectories \cup {NoDate}

\* the greatest of a set of dates, NoDate for the empty set
LatestOf(dates) ==
    IF dates = {} THEN NoDate
    ELSE CHOOSE d \in dates : \A e \in dates : CalendarDay[e] <= CalendarDay[d]

-----------------------------------------------------------------------------
(* C19: get_latest_raw_data_date returns the chronologically greatest      *)
(* stored snapshot date, none when there is none; get_previous_raw_data_   *)
(* date(d) returns the chronologically greatest stored date strictly       *)
(* before d, none when there is none, and never d or a later date.         *)
C19_LatestAndPrevious ==
    /\ LastCall("get_latest_raw_data_date") =>
        output.returned = LatestOf(StrictDateDirectories)
    /\ (LastCall("get_previous_raw_data_date")
            /\ output.args[1] \in StrictDateNames) =>
        output.returned
            = LatestOf({d \in StrictDateDirectories :
                            CalendarDay[d] < CalendarDay[output.args[1]]})

-----------------------------------------------------------------------------
(* C20: the resource count trend has exactly one entry for every stored    *)
(* snapshot date and no other, in strictly ascending date order, each with *)
(* total_resources and resource_counts of the snapshot of its date, as     *)
(* they are stored when the trend is generated.                            *)
C20_ResourceCountTrend ==
    "resource_count" \in DOMAIN output =>
        LET trend == output.resource_count.resource_count_trend
        IN /\ Range(SeriesDates(trend))
                = {d \in StrictDateDirectories : "all_resources" \in DOMAIN raw_dir[d]}
           /\ Chronological(SeriesDates(trend))
           /\ \A i \in DOMAIN trend :
                LET doc == raw_dir[trend[i].date]["all_resources"]
                IN /\ trend[i].total_resources = doc.metadata.total_resources
                   /\ trend[i].resource_counts = doc.metadata.resource_counts

-----------------------------------------------------------------------------
(* C21: trend determinism.  When generate_trend_data runs twice over the   *)
(* same snapshot history, at two different moments, the two runs write the *)
(* same documents: every field of the monthly cost trend and of the        *)
(* resource count trend is equal.                                          *)
C21_TrendDeterminism ==
    [][(/\ LastCall("generate_trend_data")
        /\ output'.op = "generate_trend_data"
        /\ raw_dir' = raw_dir)
            => output' = output]_vars

\* the records of a list that carry the tag key k
RecordsCarrying(records, k) ==
    {i \in DOMAIN records : k \in TagKeys(records[i])}

\* the tag keys carried by the records of a list
KeysCarried(records) ==
    UNION {TagKeys(records[i]) : i \in DOMAIN records}

-----------------------------------------------------------------------------
(* C22: summary rollup.  The summary is made from the one snapshot         *)
(* selected (the date given, the latest stored date when none is given),   *)
(* and for every resource type of that snapshot count is the number of     *)
(* records of the type and tags_summary[k] is the number of records of the *)
(* type that carry the tag key k, so that tags_summary[k] <= count.        *)
C22_SummaryRollup ==
    (LastCall("generate_summary") /\ "summary" \in DOMAIN output) =>
        LET source == output.summary.metadata.source_date
            rollup == output.summary.resource_summary
            doc == StoredDocument(source)
        IN /\ source = IF output.args[1] = NoDate THEN LatestOf(StoredDates)
                       ELSE output.args[1]
           /\ DOMAIN rollup = DOMAIN doc.resources
           /\ \A t \in DOMAIN rollup :
                /\ rollup[t].count = Len(doc.resources[t])
                /\ DOMAIN rollup[t].tags_summary = KeysCarried(doc.resources[t])
                /\ \A k \in DOMAIN rollup[t].tags_summary :
                    /\ rollup[t].tags_summary[k]
                        = Cardinality(RecordsCarrying(doc.resources[t], k))
                    /\ rollup[t].tags_summary[k] <= rollup[t].count

-----------------------------------------------------------------------------
-----------------------------------------------------------------------------
(* C24: snapshots change only through a save of their own date.  In every  *)
(* step that changes what is stored for a date D, the step is a            *)
(* save_raw_data call for D: generate_summary, generate_trend_data and     *)
(* generate_change_report leave every stored snapshot as it is, and a save *)
(* for D leaves the snapshots of all other dates as they are.              *)
C24_SnapshotsImmutable ==
    [][\A d \in DOMAIN raw_dir :
        raw_dir'[d] # raw_dir[d] =>
            /\ output'.op = "save_raw_data"
            /\ output'.returned = d]_vars

\* a save for 2025-03-01 was made while 2025-02-01 held a snapshot with
\* records, and the two snapshots differ
C24_Witness ==
    /\ LastCall("save_raw_data")
    /\ output.returned = "2025-03-01"
    /\ "2025-02-01" \in StoredDates
    /\ TotalRecords(StoredDocument("2025-02-01")) > 0
    /\ StoredDocument("2025-03-01").resources # StoredDocument("2025-02-01").resources

\* the collectors of a call whose collect() returned, and those that raised
Succeeded(call) ==
    DOMAIN call.collected

Failed(call) ==
    Range(call.done) \ DOMAIN call.collected

\* the last collect_all_resources call has returned
CollectionReturned ==
    collection # None /\ collection.pc = "returned"

-----------------------------------------------------------------------------
(* C25: collection tolerates partial failure.  Whatever subset of the      *)
(* collectors raises, collect_all_resources does not end with an           *)
(* exception, every call that has begun returns, every collector of the    *)
(* list has run when it returns, and the mapping returned holds the        *)
(* resource types (with their records) of every collector that succeeded   *)
(* and no other key.                                                       *)
C25_PartialFailure ==
    /\ [](collection # None =>
            /\ collection.pc # "raised"
            /\ collection.pc = "returned" =>
                /\ collection.done = collectors
                /\ \A c \in Succeeded(collection) :
                    \A t \in DOMAIN collection.collected[c] :
                        /\ t \in DOMAIN collection.all_resources
                        /\ collection.all_resources[t] = collection.collected[c][t]
                /\ DOMAIN collection.all_resources
                    = UNION {DOMAIN collection.collected[c] :
                                c \in Succeeded(collection)})
    /\ (Collecting ~> CollectionReturned)

\* a call returned after the first and the last collector raised and others
\* between them succeeded
C25_Witness ==
    /\ collection # None
    /\ collection.pc = "returned"
    /\ {"EC2Collector", "SQSCollector", "IAMCollector"} \subseteq Failed(collection)
    /\ {"S3Collector", "RDSCollector"} \subseteq Succeeded(collection)
    /\ "S3_Buckets" \in DOMAIN collection.all_resources

-----------------------------------------------------------------------------
(* C26: determinism of the diff.  Two runs of _detect_changes on the same  *)
(* pair of snapshots return the same change set, the order of the records  *)
(* inside every added, removed and modified list included.                 *)
C26_DiffDeterminism ==
    detected # None =>
        \A second_run \in _detect_changes(start_doc, end_doc) :
            second_run = detected

\* the last aws_api_call call has ended
ApiCallEnded ==
    api_call # None /\ api_call.pc \in {"returned", "raised"}

\* an invocation that raised one of the four network exceptions, or a
\* ClientError with a code of the retry list
RetryableFailure(invocation) ==
    /\ "raised" \in DOMAIN invocation
    /\ \/ invocation.raised.class \in
            {"ConnectionClosedError", "EndpointConnectionError",
             "ConnectTimeoutError", "ReadTimeoutError"}
       \/ /\ invocation.raised.class = "ClientError"
          /\ invocation.raised.code \in retry_errors

\* an invocation that raised a ClientError with a code outside the retry list
NonRetryableClientError(invocation) ==
    /\ "raised" \in DOMAIN invocation
    /\ invocation.raised.class = "ClientError"
    /\ invocation.raised.code \notin retry_errors

-----------------------------------------------------------------------------
(* C27: bounded retry of aws_api_call.  client_method is invoked at most 3 *)
(* times; every invocation before the last one failed with a network       *)
(* exception or a ClientError of the retry list and was followed by a wait *)
(* of 1 second (before the 2nd invocation) or 2 seconds (before the 3rd);  *)
(* an invocation that returns ends the call with its result; an invocation *)
(* that raises a non-retryable ClientError ends the call with that error,  *)
(* with no wait and no further invocation, hence after exactly one         *)
(* invocation when it is the first; the failure of the 3rd invocation is   *)
(* raised with no wait; and every call ends, returning or raising.         *)
C27_BoundedRetry ==
    /\ [](api_call # None =>
            LET invoked == api_call.invoked
                waits == api_call.slept
            IN /\ Len(invoked) <= 3
               /\ Len(waits) = IF ApiCallEnded THEN Len(invoked) - 1 ELSE Len(invoked)
               /\ \A i \in DOMAIN waits :
                    /\ RetryableFailure(invoked[i])
                    /\ waits[i] = IF i = 1 THEN 1 ELSE 2
               /\ \A i \in DOMAIN invoked :
                    /\ "returned" \in DOMAIN invoked[i] =>
                        /\ i = Len(invoked)
                        /\ api_call.pc = "returned"
                        /\ api_call.result = invoked[i]
                    /\ NonRetryableClientError(invoked[i]) =>
                        /\ i = Len(invoked)
                        /\ api_call.pc = "raised"
                        /\ api_call.result = invoked[i]
                    /\ ("raised" \in DOMAIN invoked[i] /\ i = 3) =>
                        /\ api_call.pc = "raised"
                        /\ api_call.result = invoked[i]
               /\ ApiCallEnded => api_call.result = invoked[Len(invoked)])
    /\ (ApiCallRunning ~> ApiCallEnded)

\* a call that was throttled, then timed out, and then ended with the
\* throttling error of its third invocation after waits of 1 and 2 seconds
C27_Witness ==
    /\ ApiCallEnded
    /\ api_call.pc = "raised"
    /\ Len(api_call.invoked) = 3
    /\ api_call.invoked[1] = [raised |-> [class |-> "ClientError", code |-> "Throttling"]]
    /\ api_call.invoked[2] = [raised |-> [class |-> "ReadTimeoutError"]]
    /\ api_call.result = [raised |-> [class |-> "ClientError", code |-> "Throttling"]]
    /\ api_call.slept = <<1, 2>>

\* the last call of the wrapper has ended
RetryEnded ==
    retry_call # None /\ retry_call.pc \in {"returned", "raised"}

\* an invocation that raised an exception which is neither of a retryable
\* class nor a ClientError with a retryable code
NotRetryableFailure(invocation) ==
    /\ "raised" \in DOMAIN invocation
    /\ ~RetryableFailure(invocation)

-----------------------------------------------------------------------------
(* C28: error propagation of with_retry, with the default                  *)
(* retry_exceptions.  func is invoked at most max_attempts times; an       *)
(* exception of func that is not retryable ends the call at once and       *)
(* reaches the caller as that same exception (after exactly one invocation *)
(* when it comes first); a retryable failure of the last of max_attempts   *)
(* invocations reaches the caller as that exception; there is a wait after *)
(* every failed invocation but the last one, and none after the last.      *)
C28_RetryPropagation ==
    retry_call # None =>
        LET invoked == retry_call.invoked
        IN /\ Len(invoked) <= retry_call.max_attempts
           /\ Len(retry_call.slept)
                = IF RetryEnded THEN Len(invoked) - 1 ELSE Len(invoked)
           /\ \A i \in DOMAIN invoked :
                /\ NotRetryableFailure(invoked[i]) =>
                    /\ i = Len(invoked)
                    /\ retry_call.pc = "raised"
                    /\ retry_call.result = invoked[i]
                /\ (RetryableFailure(invoked[i]) /\ i = retry_call.max_attempts) =>
                    /\ retry_call.pc = "raised"
                    /\ retry_call.result = invoked[i]

\* the resource types of either snapshot of the comparison
ComparedTypes ==
    DOMAIN start_doc.resources \cup DOMAIN end_doc.resources

-----------------------------------------------------------------------------
(* C29: the diff partitions the resource IDs.  For every resource type and *)
(* every non-empty ResourceId of the type in either snapshot, the ID is in *)
(* exactly one of four classes: added (it is only in the end snapshot),    *)
(* removed (only in the start snapshot), modified, or unchanged (in both   *)
(* snapshots and not reported).  The added, removed and modified IDs of a  *)
(* type are pairwise disjoint, no list names an ID twice, no other ID is   *)
(* reported, and no type is mapped to an empty list.                       *)
C29_Partition ==
    detected # None =>
        /\ \A t \in ComparedTypes :
            LET before == DiffableIds(RecordsOf(start_doc, t))
                after == DiffableIds(RecordsOf(end_doc, t))
                added == ReportedIds(detected, "added", t)
                removed == ReportedIds(detected, "removed", t)
                modified == ModifiedIds(detected, t)
            IN /\ added \cap removed = {}
               /\ added \cap modified = {}
               /\ removed \cap modified = {}
               /\ added = after \ before
               /\ removed = before \ after
               /\ modified \subseteq before \cap after
               /\ Len(Reported(detected, "added", t)) = Cardinality(added)
               /\ Len(Reported(detected, "removed", t)) = Cardinality(removed)
               /\ Len(Reported(detected, "modified", t)) = Cardinality(modified)
        /\ \A kind \in {"added", "removed", "modified"} :
            /\ DOMAIN detected[kind] \subseteq ComparedTypes
            /\ \A t \in DOMAIN detected[kind] : Len(detected[kind][t]) > 0

\* a comparison in which one type has an added and a modified ID and
\* nothing is removed
C29_Witness ==
    /\ detected # None
    /\ \E t \in ComparedTypes :
        /\ ReportedIds(detected, "added", t) # {}
        /\ ModifiedIds(detected, t) # {}
    /\ NothingReported(detected, "removed")

\* the records of a snapshot document, of all types
AllRecords(doc) ==
    UNION {Range(doc.resources[t]) : t \in DOMAIN doc.resources}

-----------------------------------------------------------------------------
(* C30: the two change detectors agree.  For every record of the start     *)
(* snapshot and every record of the end snapshot, _is_resource_modified    *)
(* holds of the pair exactly when _get_resource_changes of the pair is a   *)
(* non-empty mapping; every entry of a modified list carries at least one  *)
(* field change or tag change, and an ID of both snapshots whose records   *)
(* have a non-empty change detail is in the modified list of its type.     *)
C30_DetectorsAgree ==
    /\ start_doc # None =>
        \A before \in AllRecords(start_doc), after \in AllRecords(end_doc) :
            _is_resource_modified(before, after)
                <=> (DOMAIN _get_resource_changes(before, after) # {})
    /\ detected # None =>
        /\ \A e \in AllModifiedEntries(detected) : DOMAIN e.changes # {}
        /\ \A t \in ComparedTypes :
            \A id \in DiffableIds(RecordsOf(start_doc, t))
                        \cap DiffableIds(RecordsOf(end_doc, t)) :
                (DOMAIN _get_resource_changes(LastWithId(RecordsOf(start_doc, t), id),
                                              LastWithId(RecordsOf(end_doc, t), id)) # {})
                    => id \in ModifiedIds(detected, t)

\* a record was reported as modified whose only change is the value of a tag
C30_Witness ==
    /\ detected # None
    /\ \E e \in AllModifiedEntries(detected) :
        /\ DOMAIN e.changes = {"Tags"}
        /\ DOMAIN e.changes["Tags"] = {"modified"}
        /\ DOMAIN e.before = DOMAIN e.after

====
